---------------------------- MODULE Spec2Model ----------------------------
(***************************************************************************)
(* A state-machine model of the CLAP tutorial synthesiser plugin.          *)
(*                                                                         *)
(*   build = "plugin"     src/plugin.cpp        (part 1: renders straight  *)
(*                                               into the host buffers)    *)
(*   build = "my_plugin"  src/src/my_plugin.cpp (renders at the internal   *)
(*                                               rate into render_buf and  *)
(*                                               resamples with Speex)     *)
(*   build = "nuked_sc55" src/src/nuked_sc55.cpp (the same engine with an  *)
(*                                               empty renderer and a      *)
(*                                               pass-through path)        *)
(*                                                                         *)
(* Two contexts run concurrently: the render context (audio thread:        *)
(* Process, Flush) and the control context (main thread: LoadState,        *)
(* SaveState, GetParamValue).  The only state both touch is the four       *)
(* parameter arrays, guarded by the mutex sync_params.  A step of the      *)
(* model is one lock acquisition, one critical section up to its release,  *)
(* or one lock-free stretch of a handler between two observable points.    *)
(*                                                                         *)
(* Floats are abstracted: a parameter value is a small natural number in   *)
(* units of 0.5 (so the default 0.5 is 1), a sample is a tag telling       *)
(* whether RenderAudio produced it.                                        *)
(***************************************************************************)
EXTENDS Integers, Sequences, FiniteSets, TLC

(* ------------------------------ bounds -------------------------------- *)
\* Largest block length (process->frames_count) the host asks for.
MaxFrames == 3
\* Largest number of input events in one block.
MaxEvents == 2
\* Largest block length where the registry or both contexts are explored.
SmallBlock == 1
\* Voices started over a whole run (caps the uid counter).
MaxVoiceStarts == 3
\* Parameter values are drawn from 0..MaxValue.
MaxValue == 2
\* Process is not called with render_buf more than this many frames over
\* the size Activate gave it.
MaxCarry == 2
\* Activate is called at most this many times on one plugin.
MaxActivations == 2

(* ------------------------- program constants -------------------------- *)
NumParams == 1
ParamVolume == 0
\* info->default_value = 0.5f, in units of 0.5
DefaultValue == 1
\* sizeof(float)
FloatBytes == 4
\* the wildcard of key / note_id / channel
Wildcard == -1

ParamIds == 0 .. (NumParams - 1)
Values == 0 .. MaxValue
Keys == {Wildcard, 0, 1}
NoteIds == {Wildcard, 0}
Channels == {0}

\* A switch of ProcessEvent in which the MIDI case falls into the note case.
NoteTypesAndMidi == {"NOTE_ON", "NOTE_OFF", "NOTE_CHOKE", "MIDI"}

NoteTypes == {"NOTE_ON", "NOTE_OFF", "NOTE_CHOKE"}
\* The inert kind the scheduling specifications feed.
InertTypes == {"MIDI"}
\* Every kind ProcessEvent accepts and ignores; OTHER_SPACE stands for an
\* event whose space_id is not CLAP_CORE_EVENT_SPACE_ID.
InertKinds == {"NOTE_EXPRESSION", "TRANSPORT", "MIDI", "MIDI_SYSEX", "MIDI2",
               "OTHER_SPACE"}

VARIABLES
    build,                \* which program runs: "plugin" or "my_plugin"
    \* ---- plugin object
    voices,               \* std::vector<Voice>
    audio_params,         \* float audio_params[NumParams]
    audio_params_changed, \* bool  audio_params_changed[NumParams]
    main_params,          \* float main_params[NumParams]
    main_params_changed,  \* bool  main_params_changed[NumParams]
    sync_params,          \* owner of the mutex: "none", "audio" or "main"
    render_buf,           \* render_buf[0] (render_buf[1] is always its copy)
    resample_ratio,       \* <<num, den>>: RenderSampleRateHz / output rate
    resampler,            \* SpeexResamplerState*: "null" or "live"
    output_sample_rate_hz, \* <<num, den>> Hz: the host's rate
    do_resample,          \* NukedSc55::do_resample
    converters,           \* SpeexResamplerState instances created by
                          \* speex_resampler_init and not yet destroyed
    \* ---- render context: the running Process / Flush call
    apc,                  \* position of the audio thread
    call,                 \* the running call: "none", "process", "flush"
    num_frames,           \* process->frames_count
    num_events,           \* process->in_events->size()
    peeked,               \* the event read from in_events and not yet
                          \* applied: << >> or <<event>>
    event_index,
    next_event_frame,
    curr_frame,
    out_events,           \* events pushed to process->out_events in this call
    audio_out,            \* per output frame: how often it was written
    in_len, out_len,      \* the resample step's locals
    input_len,
    copy_index,           \* i of the pass-through loop of NukedSc55::Process
    \* ---- control context
    mpc,                  \* position of the main thread
    m_id,                 \* argument of the running GetParamValue
    ret,                  \* the last value a control-side call returned
    stream,               \* what the last SaveState wrote
    \* ---- history (not program state)
    log,                  \* what this call did, in order
    next_uid,             \* identity of the next voice started
    choked,               \* uids of the voices removed by a choke
    released_twins,       \* pairs of uids with identical (key, note_id,
                          \* channel) that one release of this block matched
    summed,               \* uids of the voices the last RenderAudio of this
                          \* call added to a frame
    loaded,               \* per parameter: the loaded value still to be
                          \* propagated, or NoValue
    save_pending          \* per parameter: the pending control-side value
                          \* when SaveState took the lock, or NoValue

paramVars == << audio_params, audio_params_changed, main_params,
               main_params_changed >>
rateVars == << output_sample_rate_hz, do_resample, copy_index,
              converters >>
resampleVars == << render_buf, resample_ratio, resampler, in_len, out_len,
                  input_len, rateVars >>
callVars == << call, num_frames, num_events, peeked, event_index,
              next_event_frame, curr_frame >>
mainVars == << mpc, m_id, ret, stream, save_pending >>
voiceVars == << voices, next_uid, choked, released_twins, summed >>

vars == << build, paramVars, sync_params, resampleVars, apc, callVars,
           out_events, audio_out, mainVars, log, voiceVars, loaded >>

NoValue == -1

(* ------------------------------ voices -------------------------------- *)
\* A matching rule that looks at the key alone.
MatchesKeyOnly(ev, v) == ev.key = Wildcard \/ v.key = ev.key

\* The matching rule of the note and modulation handlers.
Matches(ev, v) ==
    /\ (ev.key = Wildcard \/ v.key = ev.key)
    /\ (ev.note_id = Wildcard \/ v.note_id = ev.note_id)
    /\ (ev.channel = Wildcard \/ v.channel = ev.channel)

\* A release that clears held on a copy of the voice.
ReleaseVoiceCopy(v) == v

\* voice->held = false
ReleaseVoice(v) == [v EXCEPT !.held = FALSE]

\* The choke loop without the --i after the erase.
ChokeNextIndexSkips(i) == i + 1

\* The index the loop continues with after voices.erase(begin + i); --i; ++i
ChokeNextIndex(i) == i

\* for (i = 0; i < voices.size(); ++i) of the note handler, from index i
\* (1-based here).  A choke erases the match and stays on the same index,
\* any other note event clears held.
RECURSIVE NoteLoop(_, _, _)
NoteLoop(vs, ev, i) ==
    IF i > Len(vs) THEN vs
    ELSE IF Matches(ev, vs[i])
         THEN IF ev.type = "NOTE_CHOKE"
              THEN NoteLoop(SubSeq(vs, 1, i - 1) \o SubSeq(vs, i + 1, Len(vs)),
                            ev, ChokeNextIndex(i))
              ELSE NoteLoop([vs EXCEPT ![i] = ReleaseVoice(vs[i])], ev, i + 1)
         ELSE NoteLoop(vs, ev, i + 1)

\* A voice-start that leaves the new voice's phase where the previous
\* voice's phase moved to.
NewVoiceStalePhase(ev, uid) ==
    [held |-> TRUE, note_id |-> ev.note_id, channel |-> ev.channel,
     key |-> ev.key, phase |-> 1,
     param_offsets |-> [p \in ParamIds |-> 0], uid |-> uid]

\* Voice voice = {.held = true, .note_id, .channel, .key, .phase = 0.0f};
\* param_offsets, not named, is value-initialised.
NewVoice(ev, uid) ==
    [held |-> TRUE, note_id |-> ev.note_id, channel |-> ev.channel,
     key |-> ev.key, phase |-> 0,
     param_offsets |-> [p \in ParamIds |-> 0], uid |-> uid]

\* A voice loop that moves the phase of every voice on.
AdvancePhaseAll(vs, n) ==
    [k \in 1 .. Len(vs) |->
        IF n > 0 THEN [vs[k] EXCEPT !.phase = 1] ELSE vs[k]]

\* The voice loop of RenderAudio over n frames: the phase of every held
\* voice moves on by 440 * 2^((key - 57) / 12) / rate per frame, modulo 1.
\* The phase is kept as 0 (the value a voice starts with) or PhaseMoved
\* (any value it has after at least one frame).
PhaseMoved == 1
AdvancePhase(vs, n) ==
    [k \in 1 .. Len(vs) |->
        IF vs[k].held /\ n > 0 THEN [vs[k] EXCEPT !.phase = PhaseMoved]
        ELSE vs[k]]

\* The voice loop of RenderAudio over n frames: the voices whose output is
\* added to sum, those the `if (!voice->held) continue;` does not skip.
Summed(vs, n) ==
    IF n > 0 THEN {vs[k].uid : k \in {j \in 1 .. Len(vs) : vs[j].held}}
    ELSE {}

\* The NOTE_ON / NOTE_OFF / NOTE_CHOKE case of ProcessEvent.
ApplyNote(vs, ev, uid) ==
    LET after == NoteLoop(vs, ev, 1)
    IN  IF ev.type = "NOTE_ON" THEN Append(after, NewVoice(ev, uid)) ELSE after

\* The CLAP_EVENT_PARAM_MOD loop without its break: every match gets the
\* offset.
RECURSIVE ModLoopNoBreak(_, _, _)
ModLoopNoBreak(vs, ev, i) ==
    IF i > Len(vs) THEN vs
    ELSE IF Matches(ev, vs[i])
         THEN ModLoopNoBreak(
                  [vs EXCEPT ![i].param_offsets[ev.param_id] = ev.value],
                  ev, i + 1)
         ELSE ModLoopNoBreak(vs, ev, i + 1)

\* The CLAP_EVENT_PARAM_MOD case: the first match gets the offset, then break.
RECURSIVE ModLoop(_, _, _)
ModLoop(vs, ev, i) ==
    IF i > Len(vs) THEN vs
    ELSE IF Matches(ev, vs[i])
         THEN [vs EXCEPT ![i].param_offsets[ev.param_id] = ev.value]
         ELSE ModLoop(vs, ev, i + 1)

\* The CLAP_EVENT_NOTE_END pushed for voice v at the end of Process.
NoteEnd(v) ==
    [type |-> "NOTE_END", key |-> v.key, note_id |-> v.note_id,
     channel |-> v.channel, param_id |-> 0, value |-> 0, uid |-> v.uid,
     locked |-> FALSE]

\* The index the cleanup loop continues with after voices.erase(begin + i); ++i
CleanupNextIndex(i) == i + 1

\* A "Clear voices" loop that erases nothing.
CleanupLoopKeepsAll(vs, i, pushed) == << vs, pushed >>

\* The "Clear voices" loop at the end of Process, from index i (1-based):
\* <<the registry left, the NOTE_END events pushed>>.
RECURSIVE CleanupLoop(_, _, _)
CleanupLoop(vs, i, pushed) ==
    IF i > Len(vs) THEN << vs, pushed >>
    ELSE IF ~vs[i].held
         THEN CleanupLoop(SubSeq(vs, 1, i - 1) \o SubSeq(vs, i + 1, Len(vs)),
                          CleanupNextIndex(i), Append(pushed, NoteEnd(vs[i])))
         ELSE CleanupLoop(vs, i + 1, pushed)

\* The number of passes of the "Clear voices" loop's body from index i
\* (1-based), the loop test being i < voices.size().
RECURSIVE CleanupVisits(_, _)
CleanupVisits(vs, i) ==
    IF i > Len(vs) THEN 0
    ELSE IF ~vs[i].held
         THEN 1 + CleanupVisits(SubSeq(vs, 1, i - 1)
                                    \o SubSeq(vs, i + 1, Len(vs)),
                                CleanupNextIndex(i))
         ELSE 1 + CleanupVisits(vs, i + 1)

(* ------------------------------ events -------------------------------- *)
\* The host's events with a timestamp in T.  Fields a kind does not use
\* are fixed.
NoteEventsAt(T) ==
    [type : NoteTypes, time : T, key : Keys, note_id : NoteIds,
     channel : Channels, param_id : {0}, value : {0}]
ModEventsAt(T) ==
    [type : {"PARAM_MOD"}, time : T, key : Keys, note_id : NoteIds,
     channel : Channels, param_id : ParamIds, value : Values]
ValueEventsAt(T) ==
    [type : {"PARAM_VALUE"}, time : T, key : {Wildcard}, note_id : {Wildcard},
     channel : {Wildcard}, param_id : ParamIds, value : Values]
InertEventsAt(T) ==
    [type : InertKinds, time : T, key : {Wildcard}, note_id : {Wildcard},
     channel : {Wildcard}, param_id : {0}, value : {0}]
EventsAt(kinds, T) ==
    {e \in NoteEventsAt(T) \cup ModEventsAt(T) \cup ValueEventsAt(T)
             \cup InertEventsAt(T) : e.type \in kinds}

\* An event pushed to the host's output sink.  locked tells whether the
\* audio thread owned sync_params during try_push.
ParamEcho(i, v, locked) ==
    [type |-> "PARAM_VALUE", key |-> Wildcard, note_id |-> Wildcard,
     channel |-> Wildcard, param_id |-> i, value |-> v, uid |-> 0,
     locked |-> locked]

\* Nothing written to the host's stream.
NoStream == [data |-> [i \in ParamIds |-> NoValue], bytes |-> 0]

\* What a control-side call returned.
NoReturn == [op |-> "none", ok |-> FALSE, value |-> NoValue]
Returned(op, ok, value) == [op |-> op, ok |-> ok, value |-> value]

LogEntry(op, a, b) == [op |-> op, a |-> a, b |-> b]

(* ------------------------------- Init --------------------------------- *)
\* static constexpr RenderSampleRateHz of MyPlugin (my_plugin.h) and of
\* NukedSc55 (nuked_sc55.h).
RenderSampleRateHz == 16789
Sc55RenderSampleRateHz == 32000

\* The object after its constructor and Init(): both value arrays hold the
\* default, all flags are clear, no voice, no converter.
InitPlugin(b) ==
    /\ build = b
    /\ voices = << >>
    /\ audio_params = [i \in ParamIds |-> DefaultValue]
    /\ main_params = [i \in ParamIds |-> DefaultValue]
    /\ audio_params_changed = [i \in ParamIds |-> FALSE]
    /\ main_params_changed = [i \in ParamIds |-> FALSE]
    /\ sync_params = "none"
    /\ render_buf = << >>
    /\ resample_ratio = << 0, 1 >>
    /\ output_sample_rate_hz = IF b = "nuked_sc55"
                               THEN << Sc55RenderSampleRateHz, 1 >>
                               ELSE << 0, 1 >>
    /\ do_resample = FALSE
    /\ converters = 0
    /\ copy_index = 0
    /\ resampler = "null"
    /\ apc = "idle"
    /\ call = "none"
    /\ num_frames = 0
    /\ num_events = 0
    /\ peeked = << >>
    /\ event_index = 0
    /\ next_event_frame = 0
    /\ curr_frame = 0
    /\ out_events = << >>
    /\ audio_out = << >>
    /\ in_len = 0
    /\ out_len = 0
    /\ input_len = 0
    /\ mpc = "idle"
    /\ m_id = 0
    /\ ret = NoReturn
    /\ stream = NoStream
    /\ log = << >>
    /\ next_uid = 1
    /\ choked = {}
    /\ released_twins = {}
    /\ summed = {}
    /\ loaded = [i \in ParamIds |-> NoValue]
    /\ save_pending = [i \in ParamIds |-> NoValue]

(* --------------------- render context: Process ------------------------ *)
\* Where Process goes once its scheduling loop is over.
AfterLoopPc ==
    IF build = "my_plugin" THEN "resample"
    ELSE IF build = "nuked_sc55"
         THEN (IF do_resample THEN "resample" ELSE "passthrough")
         ELSE "cleanup"

\* Where a call goes after SyncMainParamsToAudio.
AfterSyncPc ==
    IF call = "flush" THEN "flush"
    ELSE IF 0 < num_frames THEN "while" ELSE AfterLoopPc

\* static_cast<size_t>(static_cast<double>(max_frame_count) * ratio * 1.10f)
MaxRenderBufSize(maxfc, r) == (maxfc * r[1] * 11) \div (r[2] * 10)

\* A scheduler that starts at frame 0 also when the block has no events.
FirstEventFrameZero(n, ne) == 0

\* uint32_t next_event_frame = input_event_count ? 0 : frame_count
FirstEventFrame(n, ne) == IF ne = 0 THEN n ELSE 0

\* Process without the call of SyncMainParamsToAudio.
ProcessCallSkipsSync(maxN, maxEv) ==
    /\ apc = "idle"
    /\ sync_params = "none"
    /\ build = "my_plugin" => resampler = "live"
    /\ \E n \in 0 .. maxN :
         \E ne \in 0 .. (IF n = 0 THEN 0 ELSE maxEv) :
            /\ num_frames' = n
            /\ num_events' = ne
            /\ next_event_frame' = FirstEventFrame(n, ne)
            /\ audio_out' = [k \in 1 .. n |-> 0]
            /\ apc' = IF 0 < n THEN "while" ELSE AfterLoopPc
    /\ event_index' = 0
    /\ curr_frame' = 0
    /\ peeked' = << >>
    /\ out_events' = << >>
    /\ log' = << >>
    /\ call' = "process"
    /\ UNCHANGED << build, paramVars, sync_params, resampleVars, mainVars,
                    voiceVars, loaded >>

\* Process is entered: the locals are set and SyncMainParamsToAudio takes
\* the lock.  Nothing before the lock is shared, so the call and the
\* acquisition are one step.  The events' timestamps lie in [0, N), so an
\* empty block has no events.
ProcessCall(maxN, maxEv) ==
    /\ apc = "idle"
    /\ sync_params = "none"
    /\ build = "my_plugin" =>
          /\ resampler = "live"
          /\ Len(render_buf)
                <= MaxRenderBufSize(MaxFrames, resample_ratio) + MaxCarry
    /\ \E n \in 0 .. maxN :
         \E ne \in 0 .. (IF n = 0 THEN 0 ELSE maxEv) :
            /\ num_frames' = n
            /\ num_events' = ne
            /\ next_event_frame' = FirstEventFrame(n, ne)
            /\ audio_out' = [k \in 1 .. n |-> 0]
    /\ event_index' = 0
    /\ curr_frame' = 0
    /\ peeked' = << >>
    /\ out_events' = << >>
    /\ log' = << >>
    /\ call' = "process"
    /\ apc' = "sync_cs"
    /\ sync_params' = "audio"
    /\ UNCHANGED << build, paramVars, resampleVars, mainVars, voiceVars,
                    loaded >>

\* SyncLoop without main_params_changed[i] = false.
RECURSIVE SyncLoopKeepsFlag(_, _, _, _)
SyncLoopKeepsFlag(i, ap, mc, pushed) ==
    IF i >= NumParams THEN << ap, mc, pushed >>
    ELSE IF mc[i]
         THEN SyncLoopKeepsFlag(i + 1, [ap EXCEPT ![i] = main_params[i]], mc,
                         Append(pushed, ParamEcho(i, main_params[i], TRUE)))
         ELSE SyncLoopKeepsFlag(i + 1, ap, mc, pushed)

\* SyncLoop without audio_params[i] = main_params[i].
RECURSIVE SyncLoopDropsValue(_, _, _, _)
SyncLoopDropsValue(i, ap, mc, pushed) ==
    IF i >= NumParams THEN << ap, mc, pushed >>
    ELSE IF mc[i]
         THEN SyncLoopDropsValue(i + 1, ap, [mc EXCEPT ![i] = FALSE],
                                 Append(pushed, ParamEcho(i, ap[i], TRUE)))
         ELSE SyncLoopDropsValue(i + 1, ap, mc, pushed)

\* The loop of SyncMainParamsToAudio from parameter i:
\* <<audio_params, main_params_changed, the events pushed>>.
RECURSIVE SyncLoop(_, _, _, _)
SyncLoop(i, ap, mc, pushed) ==
    IF i >= NumParams THEN << ap, mc, pushed >>
    ELSE IF mc[i]
         THEN SyncLoop(i + 1, [ap EXCEPT ![i] = main_params[i]],
                       [mc EXCEPT ![i] = FALSE],
                       Append(pushed, ParamEcho(i, main_params[i], TRUE)))
         ELSE SyncLoop(i + 1, ap, mc, pushed)

\* The body of SyncMainParamsToAudio, up to the release of the lock.
SyncMainParamsToAudio ==
    /\ apc = "sync_cs"
    /\ sync_params = "audio"
    /\ LET r == SyncLoop(0, audio_params, main_params_changed, << >>)
       IN  /\ audio_params' = r[1]
           /\ main_params_changed' = r[2]
           /\ out_events' = out_events \o r[3]
    /\ loaded' = [i \in ParamIds |->
                    IF main_params_changed[i] THEN NoValue ELSE loaded[i]]
    /\ log' = Append(log, LogEntry("sync", 0, 0))
    /\ sync_params' = "none"
    /\ apc' = AfterSyncPc
    /\ UNCHANGED << build, audio_params_changed, main_params, resampleVars,
                    callVars, audio_out, mainVars, voiceVars >>

\* in_events->get(in_events, event_index): the event already read, or the
\* next one of the host's list.  In Process the list is time-ordered and
\* inside the block, and a new event is only read right after the previous
\* one was applied at curr_frame, so its time is in [curr_frame, N).  Flush
\* does not look at the time.
EventAtIndex(kinds) ==
    IF peeked # << >> THEN {peeked[1]}
    ELSE IF call = "flush" THEN EventsAt(kinds, {0})
    ELSE EventsAt(kinds, curr_frame .. (num_frames - 1))

\* A scheduler that applies the next event whatever its time.
EventAlwaysDue(e, frame) == TRUE

\* !(event->time != curr_frame)
EventIsDue(e, frame) == e.time = frame

\* The scheduling while loop is not entered (no event is left, or the next
\* one is known to lie ahead).
WhileSkip ==
    /\ apc = "while"
    /\ ~(event_index < num_events /\ next_event_frame = curr_frame)
    /\ apc' = "render"
    /\ UNCHANGED << build, paramVars, sync_params, resampleVars, callVars,
                    out_events, audio_out, mainVars, log, voiceVars, loaded >>

\* A scheduler that renders to the end of the block when the next event
\* is not due.
WhileBreakToEnd(kinds) ==
    /\ apc = "while"
    /\ event_index < num_events /\ next_event_frame = curr_frame
    /\ \E e \in EventAtIndex(kinds) :
          /\ ~EventIsDue(e, curr_frame)
          /\ peeked' = << e >>
          /\ next_event_frame' = num_frames
    /\ apc' = "render"
    /\ UNCHANGED << build, paramVars, sync_params, resampleVars, call,
                    num_frames, num_events, event_index, curr_frame,
                    out_events, audio_out, mainVars, log, voiceVars, loaded >>

\* The next event is not due yet: next_event_frame = event->time; break.
\* (The host's lists start at most MaxVoiceStarts voices, whether the
\* event is applied when it is read or later.)
WhileBreak(kinds) ==
    /\ apc = "while"
    /\ event_index < num_events /\ next_event_frame = curr_frame
    /\ \E e \in EventAtIndex(kinds) :
          /\ ~EventIsDue(e, curr_frame)
          /\ e.type = "NOTE_ON" => next_uid <= MaxVoiceStarts
          /\ peeked' = << e >>
          /\ next_event_frame' = e.time
    /\ apc' = "render"
    /\ UNCHANGED << build, paramVars, sync_params, resampleVars, call,
                    num_frames, num_events, event_index, curr_frame,
                    out_events, audio_out, mainVars, log, voiceVars, loaded >>

\* A scheduling loop that forgets ++event_index.
AfterEventKeepsCursor ==
    /\ event_index' = event_index
    /\ next_event_frame' = next_event_frame
    /\ apc' = "while"

\* ++event_index and the end-of-list test that follow ProcessEvent in the
\* scheduling loop.
AfterEvent ==
    /\ event_index' = event_index + 1
    /\ IF event_index + 1 = num_events
       THEN next_event_frame' = num_frames /\ apc' = "render"
       ELSE next_event_frame' = next_event_frame /\ apc' = "while"

\* The uids of the pairs of distinct voices with identical (key, note_id,
\* channel) that ev matches.
TwinsMatched(vs, ev) ==
    {{vs[i].uid, vs[j].uid} : <<i, j>> \in
        {p \in (1 .. Len(vs)) \X (1 .. Len(vs)) :
            /\ p[1] < p[2]
            /\ Matches(ev, vs[p[1]]) /\ Matches(ev, vs[p[2]])
            /\ vs[p[1]].key = vs[p[2]].key
            /\ vs[p[1]].note_id = vs[p[2]].note_id
            /\ vs[p[1]].channel = vs[p[2]].channel}}

UidsOf(vs) == {vs[i].uid : i \in 1 .. Len(vs)}

\* ProcessEvent for every kind but CLAP_EVENT_PARAM_VALUE: what it does to
\* the registry.  Inert kinds fall through the switch.
EventEffect(e) ==
    /\ voices' = IF e.type \in NoteTypes THEN ApplyNote(voices, e, next_uid)
                 ELSE IF e.type = "PARAM_MOD" THEN ModLoop(voices, e, 1)
                 ELSE voices
    /\ next_uid' = IF e.type = "NOTE_ON" THEN next_uid + 1 ELSE next_uid
    /\ choked' = IF e.type = "NOTE_CHOKE"
                 THEN choked \cup (UidsOf(voices) \ UidsOf(voices'))
                 ELSE choked
    /\ released_twins' = IF e.type = "NOTE_OFF"
                         THEN released_twins \cup TwinsMatched(voices, e)
                         ELSE released_twins
    /\ summed' = summed

\* One pass of the while loop that applies a due event without the lock.
ApplyEvent(kinds) ==
    /\ apc = "while"
    /\ event_index < num_events /\ next_event_frame = curr_frame
    /\ \E e \in EventAtIndex(kinds) :
          /\ EventIsDue(e, curr_frame)
          /\ e.type # "PARAM_VALUE"
          /\ e.type = "NOTE_ON" => next_uid <= MaxVoiceStarts
          /\ peeked' = << >>
          /\ EventEffect(e)
          /\ log' = Append(log, LogEntry("event", event_index, e.time))
    /\ AfterEvent
    /\ UNCHANGED << build, paramVars, sync_params, resampleVars, call,
                    num_frames, num_events, curr_frame, out_events,
                    audio_out, mainVars, loaded >>

\* A due CLAP_EVENT_PARAM_VALUE: ProcessEvent takes the lock.
ParamValueLock(kinds) ==
    /\ apc \in {"while", "flush"}
    /\ event_index < num_events
    /\ apc = "while" => next_event_frame = curr_frame
    /\ sync_params = "none"
    /\ \E e \in EventAtIndex(kinds) :
          /\ apc = "while" => EventIsDue(e, curr_frame)
          /\ e.type = "PARAM_VALUE"
          /\ peeked' = << e >>
    /\ sync_params' = "audio"
    /\ apc' = IF apc = "while" THEN "param_cs" ELSE "flush_param_cs"
    /\ UNCHANGED << build, paramVars, resampleVars, call, num_frames,
                    num_events, event_index, next_event_frame, curr_frame,
                    out_events, audio_out, mainVars, log, voiceVars, loaded >>

\* ... and writes the render-side value and its flag under it.
ParamValueWrite ==
    /\ apc \in {"param_cs", "flush_param_cs"}
    /\ sync_params = "audio"
    /\ LET e == peeked[1]
       IN  /\ audio_params' = [audio_params EXCEPT ![e.param_id] = e.value]
           /\ audio_params_changed' =
                 [audio_params_changed EXCEPT ![e.param_id] = TRUE]
           /\ loaded' = [loaded EXCEPT ![e.param_id] = NoValue]
           /\ log' = Append(log, LogEntry("event", event_index, e.time))
    /\ peeked' = << >>
    /\ sync_params' = "none"
    /\ IF apc = "param_cs" THEN AfterEvent
       ELSE /\ event_index' = event_index + 1
            /\ next_event_frame' = next_event_frame
            /\ apc' = "flush"
    /\ UNCHANGED << build, main_params, main_params_changed, resampleVars,
                    call, num_frames, num_events, curr_frame,
                    out_events, audio_out, mainVars, voiceVars >>

(* ------------------------------ rendering ----------------------------- *)
\* static_cast<int>(static_cast<double>(n) * resample_ratio)
FloorMul(n, r) == (n * r[1]) \div r[2]
\* A top-up count that truncates instead of rounding up.
CeilMulTruncates(n, r) == (n * r[1]) \div r[2]

\* static_cast<int>(std::ceil(static_cast<double>(n) * resample_ratio))
CeilMul(n, r) == (n * r[1] + r[2] - 1) \div r[2]

\* A sample RenderAudio appended / a zero that vector::resize appended.
Rendered == 1
Padding == 0

\* RenderAudio(num_frames) of my_plugin.cpp: n samples appended to buf.
RenderAudio(buf, n) == buf \o [k \in 1 .. n |-> Rendered]

\* RenderAudio(start, end, out_left, out_right) of plugin.cpp: the frames
\* start .. end - 1 of the host buffer are written (0-based).
RenderSpan(out, start, end) ==
    [k \in 1 .. Len(out) |->
        IF start <= k - 1 /\ k - 1 < end THEN out[k] + 1 ELSE out[k]]

\* The render step that ends one pass of the scheduling for loop.
RenderStep ==
    /\ apc = "render"
    /\ IF build = "my_plugin"
       THEN /\ render_buf' = RenderAudio(render_buf,
                   FloorMul(next_event_frame - curr_frame, resample_ratio))
            /\ voices' = AdvancePhase(voices,
                   FloorMul(next_event_frame - curr_frame, resample_ratio))
            /\ summed' = Summed(voices,
                   FloorMul(next_event_frame - curr_frame, resample_ratio))
            /\ audio_out' = audio_out
       ELSE IF build = "nuked_sc55"
       THEN \* NukedSc55::RenderAudio has no body yet
            UNCHANGED << render_buf, voices, summed, audio_out >>
       ELSE /\ audio_out' = RenderSpan(audio_out, curr_frame, next_event_frame)
            /\ voices' = AdvancePhase(voices, next_event_frame - curr_frame)
            /\ summed' = Summed(voices, next_event_frame - curr_frame)
            /\ render_buf' = render_buf
    /\ log' = Append(log, LogEntry("render", curr_frame, next_event_frame))
    /\ curr_frame' = next_event_frame
    /\ apc' = IF next_event_frame < num_frames THEN "while" ELSE AfterLoopPc
    /\ UNCHANGED << build, paramVars, sync_params, resample_ratio, resampler,
                    in_len, out_len, input_len, rateVars, call, num_frames,
                    num_events, peeked, event_index, next_event_frame,
                    out_events, mainVars, next_uid, choked, released_twins,
                    loaded >>

\* The "Clear voices" loop and the return of Process.
Cleanup ==
    /\ apc = "cleanup"
    /\ LET r == CleanupLoop(voices, 1, << >>)
       IN  /\ voices' = r[1]
           /\ out_events' = out_events \o r[2]
    /\ log' = Append(log, LogEntry("return", 0, 0))
    /\ apc' = "returned"
    /\ UNCHANGED << build, paramVars, sync_params, resampleVars, callVars,
                    audio_out, mainVars, next_uid, choked, released_twins,
                    summed, loaded >>

(* ------------------------ the resample step --------------------------- *)
\* RenderSampleRateHz / output_sample_rate_hz for the host rates 33578,
\* 16789 and 11192.67 Hz.
Ratios == { << 1, 2 >>, << 1, 1 >>, << 3, 2 >> }

\* std::vector::resize(n): cut to n, or padded with zeros up to n.
Resize(buf, n) ==
    IF Len(buf) >= n THEN SubSeq(buf, 1, n)
    ELSE buf \o [k \in 1 .. (n - Len(buf)) |-> Padding]

\* The host rate sample_rate for which RenderSampleRateHz / sample_rate is
\* the ratio r, as <<num, den>> Hz.
HostRate(r) == << RenderSampleRateHz * r[2], r[1] >>

\* MyPlugin::Activate of my_plugin.cpp, the host's largest block being
\* MaxFrames.
Activate ==
    /\ build = "my_plugin"
    /\ apc = "idle"
    /\ resampler = "null"
    /\ \E r \in Ratios :
          /\ output_sample_rate_hz' = HostRate(r)
          /\ resample_ratio' = r
          /\ render_buf' = Resize(render_buf, MaxRenderBufSize(MaxFrames, r))
    /\ resampler' = "live"
    /\ converters' = converters + 1
    /\ UNCHANGED << build, paramVars, sync_params, in_len, out_len, input_len,
                    do_resample, copy_index, apc, callVars, out_events,
                    audio_out, mainVars, log, voiceVars, loaded >>

\* MyPlugin::Activate on a plugin that was activated before (deactivate
\* does nothing): speex_resampler_init again, the pointer to the previous
\* instance overwritten.
ActivateAgain ==
    /\ build = "my_plugin"
    /\ apc = "idle"
    /\ resampler = "live"
    /\ converters < MaxActivations
    /\ \E r \in Ratios :
          /\ output_sample_rate_hz' = HostRate(r)
          /\ resample_ratio' = r
          /\ render_buf' = Resize(render_buf, MaxRenderBufSize(MaxFrames, r))
    /\ resampler' = "live"
    /\ converters' = converters + 1
    /\ UNCHANGED << build, paramVars, sync_params, in_len, out_len, input_len,
                    do_resample, copy_index, apc, callVars, out_events,
                    audio_out, mainVars, log, voiceVars, loaded >>

\* The host destroys the plugin: MyPlugin::Shutdown under the lock, then
\* the object is deleted and no call follows.
Shutdown ==
    /\ build = "my_plugin"
    /\ apc = "idle"
    /\ mpc = "idle"
    /\ sync_params = "none"
    /\ IF resampler # "null"
       THEN /\ converters' = converters - 1
            /\ resampler' = "null"
       ELSE UNCHANGED << converters, resampler >>
    /\ apc' = "destroyed"
    /\ UNCHANGED << build, paramVars, sync_params, render_buf, resample_ratio,
                    in_len, out_len, input_len, output_sample_rate_hz,
                    do_resample, copy_index, callVars, out_events, audio_out,
                    mainVars, log, voiceVars, loaded >>

\* What speex_resampler_process_float may report for i input frames offered
\* and o output frames requested: <<consumed, produced>>, with all input
\* consumed or the output filled (the three outcomes Process lists).
SpeexResponses(i, o) ==
    {r \in (0 .. i) \X (0 .. o) : r[1] = i \/ r[2] = o}

\* The two converter calls on the buffered frames (both channels behave
\* alike: they are fed the same samples).
ResampleFirstPass ==
    /\ apc = "resample"
    /\ input_len' = Len(render_buf)
    /\ \E r \in SpeexResponses(Len(render_buf), num_frames) :
          /\ in_len' = r[1]
          /\ out_len' = r[2]
          /\ audio_out' = RenderSpan(audio_out, 0, r[2])
          /\ apc' = IF r[2] < num_frames THEN "underrun" ELSE "leftover"
    /\ log' = Append(log, LogEntry("resample", in_len', out_len'))
    /\ UNCHANGED << build, paramVars, sync_params, render_buf, resample_ratio,
                    resampler, rateVars, callVars, out_events, mainVars,
                    voiceVars, loaded >>

\* Case 2: the output is not full.  The buffer is cleared, the shortfall is
\* rendered and converted into the rest of the output.
ResampleUnderrun ==
    /\ apc = "underrun"
    /\ LET num_out_frames_remaining == num_frames - out_len
           curr_out_pos == out_len
           render_frame_count ==
               CeilMul(num_out_frames_remaining, resample_ratio)
       IN  /\ render_buf' = RenderAudio(<< >>, render_frame_count)
           /\ voices' = AdvancePhase(voices, render_frame_count)
           /\ summed' = Summed(voices, render_frame_count)
           /\ \E r \in SpeexResponses(render_frame_count,
                                      num_out_frames_remaining) :
                 /\ in_len' = r[1]
                 /\ out_len' = r[2]
                 /\ audio_out' = RenderSpan(audio_out, curr_out_pos,
                                            curr_out_pos + r[2])
           /\ log' = Append(log, LogEntry("topup", render_frame_count,
                                          out_len'))
    /\ apc' = "leftover"
    /\ UNCHANGED << build, paramVars, sync_params, resample_ratio, resampler,
                    input_len, rateVars, callVars, out_events, mainVars,
                    next_uid, choked, released_twins, loaded >>

\* Cases 1 and 3: the consumed prefix is erased, or the buffer is cleared.
ResampleLeftover ==
    /\ apc = "leftover"
    /\ render_buf' = IF in_len < input_len
                     THEN IF in_len > 0
                          THEN SubSeq(render_buf, in_len + 1, Len(render_buf))
                          ELSE render_buf
                     ELSE << >>
    /\ apc' = "cleanup"
    /\ UNCHANGED << build, paramVars, sync_params, resample_ratio, resampler,
                    in_len, out_len, input_len, rateVars, callVars,
                    out_events, audio_out, mainVars, log, voiceVars, loaded >>

\* resample() of resampler_test.cpp, the routine the plugins' resample step
\* was taken from: the length of render_buf it ends with, started with
\* buf_len frames, asked for output_len frames with ratio r, the converter
\* answering first = <<consumed, produced>> to the pass on the buffered
\* frames and topup = <<consumed, produced>> to the top-up pass if there
\* is one.  After render(render_frame_count) it sets input_len to the new
\* size of render_buf.
ReferenceCarry(buf_len, output_len, first, topup, r) ==
    LET underrun == first[2] < output_len
        render_frame_count == CeilMul(output_len - first[2], r)
        buf_size == IF underrun THEN render_frame_count ELSE buf_len
        ref_input_len == IF underrun THEN render_frame_count ELSE buf_len
        ref_in_len == IF underrun THEN topup[1] ELSE first[1]
    IN  IF ref_in_len < ref_input_len
        THEN IF ref_in_len > 0 THEN buf_size - ref_in_len ELSE buf_size
        ELSE 0

(* -------------------- NukedSc55 (nuked_sc55.cpp) ---------------------- *)
\* The host rates Activate is called with, in Hz.
Sc55Rates == {16000, 32000, 64000}

\* The test at the top of NukedSc55::Activate: the member
\* output_sample_rate_hz, not the argument, against the render rate.
Sc55RatesDiffer(sample_rate) ==
    output_sample_rate_hz # << Sc55RenderSampleRateHz, 1 >>

\* NukedSc55::Activate(sample_rate, min_frame_count, MaxFrames).  The log
\* keeps the argument.
Sc55Activate ==
    /\ build = "nuked_sc55"
    /\ apc = "idle"
    /\ \E sample_rate \in Sc55Rates :
          /\ IF Sc55RatesDiffer(sample_rate)
             THEN LET ratio == << Sc55RenderSampleRateHz, sample_rate >>
                  IN  /\ do_resample' = TRUE
                      /\ converters' = converters + 1
                      /\ output_sample_rate_hz' = << sample_rate, 1 >>
                      /\ resample_ratio' = ratio
                      /\ resampler' = "live"
                      /\ render_buf' = Resize(render_buf,
                                            MaxRenderBufSize(MaxFrames, ratio))
             ELSE /\ do_resample' = FALSE
                  /\ converters' = converters
                  /\ output_sample_rate_hz' = << Sc55RenderSampleRateHz, 1 >>
                  /\ resample_ratio' = << 1, 1 >>
                  /\ resampler' = resampler
                  /\ render_buf' = Resize(render_buf, MaxFrames)
          /\ log' = << LogEntry("activate", sample_rate, 0) >>
    /\ UNCHANGED << build, paramVars, sync_params, in_len, out_len, input_len,
                    copy_index, apc, callVars, out_events, audio_out,
                    mainVars, voiceVars, loaded >>

\* NukedSc55::Process is entered (the host has activated the plugin): the
\* locals are set; there is no parameter synchronisation.
Sc55ProcessCall(maxN, maxEv) ==
    /\ build = "nuked_sc55"
    /\ apc = "idle"
    /\ resample_ratio # << 0, 1 >>
    /\ \E n \in 0 .. maxN :
         \E ne \in 0 .. (IF n = 0 THEN 0 ELSE maxEv) :
            /\ num_frames' = n
            /\ num_events' = ne
            /\ next_event_frame' = FirstEventFrame(n, ne)
            /\ audio_out' = [k \in 1 .. n |-> 0]
            /\ apc' = IF 0 < n THEN "while" ELSE AfterLoopPc
    /\ event_index' = 0
    /\ curr_frame' = 0
    /\ peeked' = << >>
    /\ out_events' = << >>
    /\ log' = << >>
    /\ call' = "process"
    /\ UNCHANGED << build, paramVars, sync_params, resampleVars, mainVars,
                    voiceVars, loaded >>

\* One pass of the pass-through loop: out[i] = render_buf[i], then both
\* buffers are cleared.  When i is not below the buffer's size the read is
\* outside the vector and its value is whatever the memory holds; the
\* frame is written all the same.  The log keeps i and the size read from.
Sc55CopyFrame ==
    /\ apc = "passthrough"
    /\ copy_index < num_frames
    /\ audio_out' = RenderSpan(audio_out, copy_index, copy_index + 1)
    /\ log' = Append(log, LogEntry("copy", copy_index, Len(render_buf)))
    /\ render_buf' = << >>
    /\ copy_index' = copy_index + 1
    /\ UNCHANGED << build, paramVars, sync_params, resample_ratio, resampler,
                    in_len, out_len, input_len, output_sample_rate_hz,
                    do_resample, converters, apc, callVars, out_events,
                    mainVars, voiceVars, loaded >>

\* ... or the read outside the vector faults and the process is gone.
Sc55CopyFault ==
    /\ apc = "passthrough"
    /\ copy_index < num_frames
    /\ copy_index >= Len(render_buf)
    /\ log' = Append(log, LogEntry("fault", copy_index, Len(render_buf)))
    /\ apc' = "crashed"
    /\ UNCHANGED << build, paramVars, sync_params, resampleVars, callVars,
                    out_events, audio_out, mainVars, voiceVars, loaded >>

\* The pass-through loop is over and Process returns.
Sc55CopyDone ==
    /\ apc = "passthrough"
    /\ copy_index >= num_frames
    /\ log' = Append(log, LogEntry("return", 0, 0))
    /\ apc' = "returned"
    /\ UNCHANGED << build, paramVars, sync_params, resampleVars, callVars,
                    out_events, audio_out, mainVars, voiceVars, loaded >>

(* ---------------------- render context: Flush ------------------------- *)
\* Flush is entered and SyncMainParamsToAudio takes the lock.
FlushCall(maxEv) ==
    /\ apc = "idle"
    /\ sync_params = "none"
    /\ \E ne \in 0 .. maxEv : num_events' = ne
    /\ num_frames' = 0
    /\ next_event_frame' = 0
    /\ audio_out' = << >>
    /\ event_index' = 0
    /\ curr_frame' = 0
    /\ peeked' = << >>
    /\ out_events' = << >>
    /\ log' = << >>
    /\ call' = "flush"
    /\ apc' = "sync_cs"
    /\ sync_params' = "audio"
    /\ UNCHANGED << build, paramVars, resampleVars, mainVars, voiceVars,
                    loaded >>

\* One pass of Flush's event loop for an event that needs no lock (the log
\* tells whether the event was of an inert kind).
FlushEvent(kinds) ==
    /\ apc = "flush"
    /\ event_index < num_events
    /\ \E e \in EventAtIndex(kinds) :
          /\ e.type # "PARAM_VALUE"
          /\ e.type = "NOTE_ON" => next_uid <= MaxVoiceStarts
          /\ EventEffect(e)
          /\ log' = Append(log, LogEntry(IF e.type \in InertKinds
                                          THEN "inert" ELSE "event",
                                          event_index, e.time))
    /\ event_index' = event_index + 1
    /\ UNCHANGED << build, paramVars, sync_params, resampleVars, apc, call,
                    num_frames, num_events, peeked, next_event_frame,
                    curr_frame, out_events, audio_out, mainVars, loaded >>

\* in->get(in, event_index) of Flush's loop, the host's list holding one of
\* events at that index.
FlushGet(events) ==
    /\ apc = "flush"
    /\ event_index < num_events
    /\ peeked = << >>
    /\ \E e \in events :
          /\ e.type = "NOTE_ON" => next_uid <= MaxVoiceStarts
          /\ peeked' = << e >>
    /\ UNCHANGED << build, paramVars, sync_params, resampleVars, apc, call,
                    num_frames, num_events, event_index, next_event_frame,
                    curr_frame, out_events, audio_out, mainVars, log,
                    voiceVars, loaded >>

\* ProcessEvent on the event Flush has read (any kind but
\* CLAP_EVENT_PARAM_VALUE), and ++event_index.  The log keeps the kind.
FlushApply ==
    /\ apc = "flush"
    /\ peeked # << >>
    /\ peeked[1].type # "PARAM_VALUE"
    /\ EventEffect(peeked[1])
    /\ log' = Append(log, LogEntry(peeked[1].type, event_index,
                                   peeked[1].time))
    /\ peeked' = << >>
    /\ event_index' = event_index + 1
    /\ UNCHANGED << build, paramVars, sync_params, resampleVars, apc, call,
                    num_frames, num_events, next_event_frame, curr_frame,
                    out_events, audio_out, mainVars, loaded >>

\* A Flush that ends with the "Clear voices" loop of Process.
FlushReturnCleans ==
    /\ apc = "flush"
    /\ event_index >= num_events
    /\ LET r == CleanupLoop(voices, 1, << >>)
       IN  /\ voices' = r[1]
           /\ out_events' = out_events \o r[2]
    /\ log' = Append(log, LogEntry("return", 0, 0))
    /\ apc' = "returned"
    /\ UNCHANGED << build, paramVars, sync_params, resampleVars, callVars,
                    audio_out, mainVars, next_uid, choked, released_twins,
                    summed, loaded >>

\* Flush's event loop is over.
FlushReturn ==
    /\ apc = "flush"
    /\ event_index >= num_events
    /\ log' = Append(log, LogEntry("return", 0, 0))
    /\ apc' = "returned"
    /\ UNCHANGED << build, paramVars, sync_params, resampleVars, callVars,
                    out_events, audio_out, mainVars, voiceVars, loaded >>

\* Process or Flush has returned: the host takes the output events and
\* the audio, and the call's locals are gone.
CallReturn ==
    /\ apc = "returned"
    /\ apc' = "idle"
    /\ call' = "none"
    /\ num_frames' = 0
    /\ num_events' = 0
    /\ peeked' = << >>
    /\ event_index' = 0
    /\ next_event_frame' = 0
    /\ curr_frame' = 0
    /\ out_events' = << >>
    /\ audio_out' = << >>
    /\ in_len' = 0
    /\ out_len' = 0
    /\ input_len' = 0
    /\ copy_index' = 0
    /\ log' = << >>
    /\ released_twins' = {}
    /\ summed' = {}
    /\ UNCHANGED << build, paramVars, sync_params, render_buf, resample_ratio,
                    resampler, output_sample_rate_hz, do_resample,
                    converters, mainVars,
                    voices, next_uid, choked, loaded >>

(* ------------- ProcessEvent on any parameter id the host sends -------- *)
\* The index ProcessEvent uses for audio_params, audio_params_changed and
\* param_offsets: the event's param_id as it came, never compared with
\* NumParams.
IndexUsed(e) == e.param_id

\* The first voice the PARAM_MOD loop matches (1-based), 0 when none.
FirstMatch(vs, ev) ==
    IF \E k \in 1 .. Len(vs) : Matches(ev, vs[k])
    THEN CHOOSE k \in 1 .. Len(vs) :
            /\ Matches(ev, vs[k])
            /\ \A j \in 1 .. (k - 1) : ~Matches(ev, vs[j])
    ELSE 0

\* Whether ProcessEvent on e reads or writes an array at IndexUsed(e).
AccessesArray(e) ==
    \/ e.type = "PARAM_VALUE"
    \/ e.type = "PARAM_MOD" /\ FirstMatch(voices, e) > 0

\* ProcessEvent takes the lock for the parameter-set event Flush has read.
RangeValueLock ==
    /\ peeked # << >>
    /\ ParamValueLock({"PARAM_VALUE"})

\* ... and writes inside the arrays.
RangeValueWrite ==
    /\ apc = "flush_param_cs"
    /\ IndexUsed(peeked[1]) < NumParams
    /\ ParamValueWrite

\* ... or outside them: audio_params[i] = value lands on the member that
\* follows audio_params, which is audio_params_changed, whose flags take
\* what the float's bytes make of them; audio_params_changed[i] = true
\* lands on the padding behind it.
ValueOutOfRange ==
    /\ apc = "flush_param_cs"
    /\ sync_params = "audio"
    /\ IndexUsed(peeked[1]) >= NumParams
    /\ audio_params_changed' \in [ParamIds -> BOOLEAN]
    /\ log' = Append(log, LogEntry("event", event_index, peeked[1].time))
    /\ peeked' = << >>
    /\ sync_params' = "none"
    /\ event_index' = event_index + 1
    /\ apc' = "flush"
    /\ UNCHANGED << build, audio_params, main_params, main_params_changed,
                    resampleVars, call, num_frames, num_events,
                    next_event_frame, curr_frame, out_events, audio_out,
                    mainVars, voiceVars, loaded >>

\* ProcessEvent on an event that stays inside the arrays or touches none.
RangeApply ==
    /\ peeked # << >>
    /\ AccessesArray(peeked[1]) => IndexUsed(peeked[1]) < NumParams
    /\ FlushApply

\* A modulation whose param_id is outside param_offsets: the write lands
\* behind the matched Voice, on the held byte of the next voice of the
\* vector, or behind the vector's last element.
ModOutOfRange ==
    /\ apc = "flush"
    /\ peeked # << >>
    /\ peeked[1].type = "PARAM_MOD"
    /\ AccessesArray(peeked[1])
    /\ IndexUsed(peeked[1]) >= NumParams
    /\ LET k == FirstMatch(voices, peeked[1])
       IN  IF k < Len(voices)
           THEN \E b \in BOOLEAN :
                   voices' = [voices EXCEPT ![k + 1].held = b]
           ELSE voices' = voices
    /\ log' = Append(log, LogEntry(peeked[1].type, event_index,
                                   peeked[1].time))
    /\ peeked' = << >>
    /\ event_index' = event_index + 1
    /\ UNCHANGED << build, paramVars, sync_params, resampleVars, apc, call,
                    num_frames, num_events, next_event_frame, curr_frame,
                    out_events, audio_out, mainVars, next_uid, choked,
                    released_twins, summed, loaded >>

\* ... or the write outside the object faults and the process is gone.
OutOfRangeFault ==
    /\ apc \in {"flush", "flush_param_cs"}
    /\ peeked # << >>
    /\ AccessesArray(peeked[1])
    /\ IndexUsed(peeked[1]) >= NumParams
    /\ apc = "flush" => peeked[1].type = "PARAM_MOD"
    /\ log' = Append(log, LogEntry("fault", event_index, peeked[1].time))
    /\ apc' = "crashed"
    /\ UNCHANGED << build, paramVars, sync_params, resampleVars, callVars,
                    out_events, audio_out, mainVars, voiceVars, loaded >>

(* -------------------------- control context --------------------------- *)
\* A LoadState that enters its body without the lock.
LoadStateNoLock ==
    /\ mpc = "idle"
    /\ mpc' = "load_cs"
    /\ UNCHANGED << build, paramVars, sync_params, resampleVars, apc,
                    callVars, out_events, audio_out, m_id, ret, stream,
                    save_pending, log, voiceVars, loaded >>

\* LoadState takes the lock.
LoadStateLock ==
    /\ mpc = "idle"
    /\ sync_params = "none"
    /\ sync_params' = "main"
    /\ mpc' = "load_cs"
    /\ UNCHANGED << build, paramVars, resampleVars, apc, callVars, out_events,
                    audio_out, m_id, ret, stream, save_pending, log,
                    voiceVars, loaded >>

\* A read that reports its byte count and stores nothing.
ReadIntoNothing(params, data, n, torn) == params

\* stream->read(stream, main_params, bytes_to_read) that delivered n bytes
\* of the floats data: a float is replaced when all its bytes arrived, left
\* alone when none did, and is torn (any value) otherwise.
ReadInto(params, data, n, torn) ==
    [i \in ParamIds |->
        IF FloatBytes * (i + 1) <= n THEN data[i]
        ELSE IF FloatBytes * i < n THEN torn[i]
        ELSE params[i]]

\* A LoadState that marks no parameter changed.
LoadStateFlagsNone(success) == [i \in ParamIds |-> FALSE]

\* The flags LoadState sets after the read, whatever the read returned.
LoadStateFlags(success) == [i \in ParamIds |-> TRUE]

\* The body of LoadState, up to the release of the lock.
LoadState ==
    /\ mpc = "load_cs"
    /\ sync_params = "main"
    /\ \E n \in 0 .. (FloatBytes * NumParams) :
         \E data \in [ParamIds -> Values], torn \in [ParamIds -> Values] :
            LET success == (n = FloatBytes * NumParams)
            IN  /\ main_params' = ReadInto(main_params, data, n, torn)
                /\ main_params_changed' = LoadStateFlags(success)
                /\ ret' = Returned("LoadState", success, NoValue)
                /\ loaded' = IF success THEN data
                             ELSE [i \in ParamIds |-> NoValue]
    /\ sync_params' = "none"
    /\ mpc' = "returned"
    /\ UNCHANGED << build, audio_params, audio_params_changed, resampleVars,
                    apc, callVars, out_events, audio_out, m_id, stream,
                    save_pending, log, voiceVars >>

\* SaveState is entered and SyncAudioParamsToMain takes the lock.
SaveStateLock ==
    /\ mpc = "idle"
    /\ sync_params = "none"
    /\ sync_params' = "main"
    /\ mpc' = "save_cs"
    /\ save_pending' = [i \in ParamIds |->
                          IF main_params_changed[i] THEN main_params[i]
                          ELSE NoValue]
    /\ UNCHANGED << build, paramVars, resampleVars, apc, callVars, out_events,
                    audio_out, m_id, ret, stream, log, voiceVars, loaded >>

\* SyncBackLoop without audio_params_changed[i] = false.
RECURSIVE SyncBackLoopKeepsFlag(_, _, _, _)
SyncBackLoopKeepsFlag(i, mp, ac, any) ==
    IF i >= NumParams THEN << mp, ac, any >>
    ELSE IF ac[i]
         THEN SyncBackLoopKeepsFlag(i + 1, [mp EXCEPT ![i] = audio_params[i]],
                                    ac, TRUE)
         ELSE SyncBackLoopKeepsFlag(i + 1, mp, ac, any)

\* The loop of SyncAudioParamsToMain from parameter i:
\* <<main_params, audio_params_changed, any_changed>>.
RECURSIVE SyncBackLoop(_, _, _, _)
SyncBackLoop(i, mp, ac, any) ==
    IF i >= NumParams THEN << mp, ac, any >>
    ELSE IF ac[i]
         THEN SyncBackLoop(i + 1, [mp EXCEPT ![i] = audio_params[i]],
                           [ac EXCEPT ![i] = FALSE], TRUE)
         ELSE SyncBackLoop(i + 1, mp, ac, any)

\* The body of SyncAudioParamsToMain, up to the release of the lock; ret
\* holds any_changed, which SaveState drops.
SyncAudioParamsToMain ==
    /\ mpc = "save_cs"
    /\ sync_params = "main"
    /\ LET r == SyncBackLoop(0, main_params, audio_params_changed, FALSE)
       IN  /\ main_params' = r[1]
           /\ audio_params_changed' = r[2]
           /\ ret' = Returned("SyncAudioParamsToMain", r[3], NoValue)
    /\ sync_params' = "none"
    /\ mpc' = "save_write"
    /\ UNCHANGED << build, audio_params, main_params_changed, resampleVars,
                    apc, callVars, out_events, audio_out, m_id, stream,
                    save_pending, log, voiceVars, loaded >>

\* stream->write(stream, main_params, bytes_to_write), which took n bytes,
\* and the return of SaveState.
SaveStateWrite ==
    /\ mpc = "save_write"
    /\ \E n \in {0, FloatBytes * NumParams} :
          /\ stream' = IF n = 0 THEN NoStream
                       ELSE [data |-> main_params, bytes |-> n]
          /\ ret' = Returned("SaveState", n = FloatBytes * NumParams,
                             NoValue)
    /\ mpc' = "returned"
    /\ UNCHANGED << build, paramVars, sync_params, resampleVars, apc,
                    callVars, out_events, audio_out, m_id, save_pending, log,
                    voiceVars, loaded >>

\* GetParamValue(id) with id < NumParams takes the lock.
GetParamValueLock ==
    /\ mpc = "idle"
    /\ sync_params = "none"
    /\ \E id \in ParamIds : m_id' = id
    /\ sync_params' = "main"
    /\ mpc' = "get_cs"
    /\ UNCHANGED << build, paramVars, resampleVars, apc, callVars, out_events,
                    audio_out, ret, stream, save_pending, log, voiceVars,
                    loaded >>

\* GetParamValue that always reads the render-side value.
CurrentValueAudioOnly(i) == audio_params[i]

\* main_params_changed[i] ? main_params[i] : audio_params[i]
CurrentValue(i) ==
    IF main_params_changed[i] THEN main_params[i] ELSE audio_params[i]

\* ... reads the value under it and returns.
GetParamValue ==
    /\ mpc = "get_cs"
    /\ sync_params = "main"
    /\ ret' = Returned("GetParamValue", TRUE, CurrentValue(m_id))
    /\ sync_params' = "none"
    /\ mpc' = "returned"
    /\ UNCHANGED << build, paramVars, resampleVars, apc, callVars, out_events,
                    audio_out, m_id, stream, save_pending, log, voiceVars,
                    loaded >>

\* GetParamValue(id) with id >= NumParams returns the empty optional.
GetParamValueNotFound ==
    /\ mpc = "idle"
    /\ m_id' = NumParams
    /\ ret' = Returned("GetParamValue", FALSE, NoValue)
    /\ mpc' = "returned"
    /\ UNCHANGED << build, paramVars, sync_params, resampleVars, apc,
                    callVars, out_events, audio_out, stream,
                    save_pending, log, voiceVars, loaded >>

\* A GetParamInfo that fills info for every index.
InfoFoundAny(index) == TRUE

\* index == ParamVolume, the test of GetParamInfo.
InfoFound(index) == index = ParamVolume

\* GetParamInfo(index, info): fills info (of which the default value is
\* kept here) for the one parameter, returns false for any other index.
GetParamInfo ==
    /\ mpc = "idle"
    /\ \E index \in 0 .. NumParams :
          /\ m_id' = index
          /\ ret' = Returned("GetParamInfo", InfoFound(index),
                             IF InfoFound(index) THEN DefaultValue
                             ELSE NoValue)
    /\ mpc' = "returned"
    /\ UNCHANGED << build, paramVars, sync_params, resampleVars, apc,
                    callVars, out_events, audio_out, stream,
                    save_pending, log, voiceVars, loaded >>

\* snprintf(display, size, "%f", value): the value with six decimals, as
\* the number of millionths it prints (a value is in units of 0.5).
ValueText(v) == v * 500000

\* ParamValueToText(id, value, display, size).
ParamValueToText ==
    /\ mpc = "idle"
    /\ \E id \in 0 .. NumParams, value \in Values :
          /\ m_id' = id
          /\ ret' = IF id >= NumParams
                    THEN Returned("ParamValueToText", FALSE, NoValue)
                    ELSE Returned("ParamValueToText", TRUE, ValueText(value))
    /\ mpc' = "returned"
    /\ UNCHANGED << build, paramVars, sync_params, resampleVars, apc,
                    callVars, out_events, audio_out, stream,
                    save_pending, log, voiceVars, loaded >>

\* The control-side call has returned: the host takes the result.
MainReturn ==
    /\ mpc = "returned"
    /\ mpc' = "idle"
    /\ m_id' = 0
    /\ ret' = NoReturn
    /\ stream' = NoStream
    /\ save_pending' = [i \in ParamIds |-> NoValue]
    /\ UNCHANGED << build, paramVars, sync_params, resampleVars, apc,
                    callVars, out_events, audio_out, log, voiceVars, loaded >>

(* --------------------------- specifications --------------------------- *)
\* The render context of src/plugin.cpp alone, fed note and inert events
\* that are due when they are read (the break of the scheduling loop on an
\* event that lies ahead is explored in SpecSched and SpecResample): the
\* voice registry.
VoiceKinds == NoteTypes \cup InertTypes

Init == InitPlugin("plugin")

Next ==
    \/ ProcessCall(SmallBlock, MaxEvents)
    \/ SyncMainParamsToAudio
    \/ WhileSkip
    \/ ApplyEvent(VoiceKinds)
    \/ RenderStep
    \/ Cleanup
    \/ CallReturn

Spec == Init /\ [][Next]_vars

\* The render context of src/plugin.cpp alone with full-length blocks and
\* events that leave the registry alone: the event scheduler.
SchedKinds == InertTypes \cup {"PARAM_VALUE"}

NextSched ==
    \/ ProcessCall(MaxFrames, MaxEvents)
    \/ SyncMainParamsToAudio
    \/ WhileSkip
    \/ WhileBreak(SchedKinds)
    \/ ApplyEvent(SchedKinds)
    \/ ParamValueLock(SchedKinds)
    \/ ParamValueWrite
    \/ RenderStep
    \/ Cleanup
    \/ CallReturn

SpecSched == Init /\ [][NextSched]_vars

\* Both contexts of src/plugin.cpp: Process and Flush with parameter-set
\* events, due when they are read, against LoadState, SaveState and
\* GetParamValue.
ParamKinds == {"PARAM_VALUE"}

NextParams ==
    \/ ProcessCall(SmallBlock, MaxEvents)
    \/ FlushCall(MaxEvents)
    \/ SyncMainParamsToAudio
    \/ WhileSkip
    \/ ParamValueLock(ParamKinds)
    \/ ParamValueWrite
    \/ RenderStep
    \/ Cleanup
    \/ FlushReturn
    \/ CallReturn
    \/ LoadStateLock
    \/ LoadState
    \/ SaveStateLock
    \/ SyncAudioParamsToMain
    \/ SaveStateWrite
    \/ GetParamValueLock
    \/ GetParamValue
    \/ GetParamValueNotFound
    \/ MainReturn

SpecParams == Init /\ [][NextParams]_vars

\* The parameter accessors of src/plugin.cpp, called with indices inside
\* and outside the parameter table while LoadState and Process change the
\* parameter arrays.
NextAccess ==
    \/ ProcessCall(SmallBlock, MaxEvents)
    \/ SyncMainParamsToAudio
    \/ WhileSkip
    \/ ParamValueLock(ParamKinds)
    \/ ParamValueWrite
    \/ RenderStep
    \/ Cleanup
    \/ CallReturn
    \/ LoadStateLock
    \/ LoadState
    \/ GetParamInfo
    \/ GetParamValueLock
    \/ GetParamValue
    \/ GetParamValueNotFound
    \/ ParamValueToText
    \/ MainReturn

SpecAccess == Init /\ [][NextAccess]_vars

\* The render context of src/src/my_plugin.cpp: Activate, then blocks that
\* are scheduled, resampled and cleaned up.
InitResample == InitPlugin("my_plugin")

NextResample ==
    \/ Activate
    \/ ProcessCall(MaxFrames, MaxEvents)
    \/ SyncMainParamsToAudio
    \/ WhileSkip
    \/ WhileBreak(InertTypes)
    \/ ApplyEvent(InertTypes)
    \/ RenderStep
    \/ ResampleFirstPass
    \/ ResampleUnderrun
    \/ ResampleLeftover
    \/ Cleanup
    \/ CallReturn

SpecResample == InitResample /\ [][NextResample]_vars

\* Flush of src/src/my_plugin.cpp after or before Activate, fed short lists
\* of voice-start, parameter-set and inert events: ProcessEvent on what it
\* must ignore, with voices in the registry, frames in render_buf and
\* changed parameter values.
FlushKinds == {"NOTE_ON", "PARAM_VALUE"} \cup InertKinds

NextInert ==
    \/ Activate
    \/ FlushCall(SmallBlock)
    \/ SyncMainParamsToAudio
    \/ FlushEvent(FlushKinds)
    \/ ParamValueLock(FlushKinds)
    \/ ParamValueWrite
    \/ FlushReturn
    \/ CallReturn

SpecInert == InitResample /\ [][NextInert]_vars

\* Process of src/plugin.cpp run to completion: full-length blocks, events
\* that start and release voices, due or lying ahead when they are read.
\* The host starts voices on two keys with one note id.
\* Process is synchronous, so the render thread keeps taking the steps of
\* a call it is in; the host need not call again.
TermKinds == {"NOTE_ON", "NOTE_OFF"}

\* The address of the voices the host starts.
TermAddress(x) == x.key \in {0, 1} /\ x.note_id = 0

TermBreak ==
    /\ WhileBreak(TermKinds)
    /\ peeked'[1].type = "NOTE_ON" => TermAddress(peeked'[1])

TermApply ==
    /\ ApplyEvent(TermKinds)
    /\ next_uid' # next_uid => TermAddress(voices'[Len(voices')])

NextTerm ==
    \/ ProcessCall(MaxFrames, MaxEvents)
    \/ SyncMainParamsToAudio
    \/ WhileSkip
    \/ TermBreak
    \/ TermApply
    \/ RenderStep
    \/ Cleanup
    \/ CallReturn

InCall == apc # "idle" /\ NextTerm

SpecTerm == Init /\ [][NextTerm]_vars /\ WF_vars(InCall)

\* Flush of src/plugin.cpp fed voice-start, voice-release and modulation
\* events: the matching rule.  The host starts voices at two addresses
\* (one of them without a note id); releases and modulations carry any
\* key, note id and channel, the wildcard and a channel no voice has
\* included.
VoiceAddresses ==
    { [key |-> 0, note_id |-> Wildcard, channel |-> 0],
      [key |-> 1, note_id |-> 0, channel |-> 0] }

AnyAddress == [key : Keys, note_id : NoteIds, channel : {Wildcard, 0, 1}]

AddressedEvent(type, a, param_id, value) ==
    [type |-> type, time |-> 0, key |-> a.key, note_id |-> a.note_id,
     channel |-> a.channel, param_id |-> param_id, value |-> value]

VoiceEvents ==
    {AddressedEvent("NOTE_ON", a, 0, 0) : a \in VoiceAddresses}
        \cup {AddressedEvent("NOTE_OFF", a, 0, 0) : a \in AnyAddress}
        \cup {AddressedEvent("PARAM_MOD", a, i, MaxValue) :
                  a \in AnyAddress, i \in ParamIds}

NextVoices ==
    \/ FlushCall(SmallBlock)
    \/ SyncMainParamsToAudio
    \/ FlushGet(VoiceEvents)
    \/ FlushApply
    \/ FlushReturn
    \/ CallReturn

SpecVoices == Init /\ [][NextVoices]_vars

\* NukedSc55 of src/src/nuked_sc55.cpp: Activate at several host rates,
\* any number of times, and the blocks processed after it.
InitSc55 == InitPlugin("nuked_sc55")

NextSc55 ==
    \/ Sc55Activate
    \/ Sc55ProcessCall(MaxFrames, MaxEvents)
    \/ WhileSkip
    \/ WhileBreak(InertTypes)
    \/ ApplyEvent(InertTypes)
    \/ RenderStep
    \/ Sc55CopyFrame
    \/ Sc55CopyFault
    \/ Sc55CopyDone
    \/ CallReturn

SpecSc55 == InitSc55 /\ [][NextSc55]_vars

\* Process of src/src/my_plugin.cpp with voices: Activate, then short blocks
\* whose events, due when they are read, start voices on one key and
\* release them; the block is rendered into render_buf, topped up on an
\* underrun and cleaned up.
HeldApply ==
    /\ ApplyEvent(TermKinds)
    /\ next_uid' # next_uid =>
          /\ voices'[Len(voices')].key = 0
          /\ voices'[Len(voices')].note_id = 0

NextHeld ==
    \/ Activate
    \/ ProcessCall(SmallBlock, MaxEvents)
    \/ SyncMainParamsToAudio
    \/ WhileSkip
    \/ HeldApply
    \/ RenderStep
    \/ ResampleFirstPass
    \/ ResampleUnderrun
    \/ ResampleLeftover
    \/ Cleanup
    \/ CallReturn

SpecHeld == InitResample /\ [][NextHeld]_vars

\* Process of src/plugin.cpp called again and again: whenever the render
\* thread is idle a next block arrives.  The events start and release
\* voices of one note, due or lying ahead when they are read.
OneNote(x) == x.key = 0 /\ x.note_id = 0

RepeatBreak ==
    /\ WhileBreak(TermKinds)
    /\ OneNote(peeked'[1])

RepeatApply ==
    /\ ApplyEvent(TermKinds)
    /\ peeked # << >> => OneNote(peeked[1])
    /\ next_uid' # next_uid => OneNote(voices'[Len(voices')])

NextRepeat ==
    \/ ProcessCall(MaxFrames, MaxEvents)
    \/ SyncMainParamsToAudio
    \/ WhileSkip
    \/ RepeatBreak
    \/ RepeatApply
    \/ RenderStep
    \/ Cleanup
    \/ CallReturn

SpecRepeat == Init /\ [][NextRepeat]_vars /\ WF_vars(NextRepeat)

\* Flush and Process of src/src/my_plugin.cpp in turn: Flush is fed
\* voice-start, release and choke events for one note, stamped with frame
\* 0 or with a frame past any block; Process runs short blocks without
\* events, which render the held voices and clean the registry up.
FlushTimes == {0, MaxFrames}

FlushNoteEvents ==
    {[AddressedEvent(type, [key |-> 0, note_id |-> 0, channel |-> 0], 0, 0)
          EXCEPT !.time = t] :
       type \in NoteTypes, t \in FlushTimes}

\* The host runs at the render rate.
ActivateEqualRates ==
    /\ Activate
    /\ resample_ratio' = << 1, 1 >>

NextFlush ==
    \/ ActivateEqualRates
    \/ FlushCall(MaxEvents)
    \/ ProcessCall(SmallBlock, 0)
    \/ SyncMainParamsToAudio
    \/ FlushGet(FlushNoteEvents)
    \/ FlushApply
    \/ FlushReturn
    \/ WhileSkip
    \/ RenderStep
    \/ ResampleFirstPass
    \/ ResampleUnderrun
    \/ ResampleLeftover
    \/ Cleanup
    \/ CallReturn

SpecFlush == InitResample /\ [][NextFlush]_vars

\* Flush of src/plugin.cpp fed voice-starts and parameter events whose
\* param_id is any id the host can send, NumParams standing for the ids
\* outside the table.
AnyParamIds == 0 .. NumParams

RangeEvents ==
    {AddressedEvent("NOTE_ON", a, 0, 0) : a \in VoiceAddresses}
        \cup {AddressedEvent("PARAM_MOD", a, i, MaxValue) :
                  a \in VoiceAddresses, i \in AnyParamIds}
        \cup {AddressedEvent("PARAM_VALUE",
                             [key |-> Wildcard, note_id |-> Wildcard,
                              channel |-> Wildcard], i, v) :
                  i \in AnyParamIds, v \in Values}

NextRange ==
    \/ FlushCall(SmallBlock)
    \/ SyncMainParamsToAudio
    \/ FlushGet(RangeEvents)
    \/ RangeApply
    \/ ModOutOfRange
    \/ RangeValueLock
    \/ RangeValueWrite
    \/ ValueOutOfRange
    \/ OutOfRangeFault
    \/ FlushReturn
    \/ CallReturn

SpecRange == Init /\ [][NextRange]_vars

\* The life of one MyPlugin of src/src/my_plugin.cpp: activated, perhaps
\* again at another rate, running short blocks without events, and
\* destroyed at any idle moment, activated or not.
NextLife ==
    \/ Activate
    \/ ActivateAgain
    \/ ProcessCall(SmallBlock, 0)
    \/ SyncMainParamsToAudio
    \/ WhileSkip
    \/ RenderStep
    \/ ResampleFirstPass
    \/ ResampleUnderrun
    \/ ResampleLeftover
    \/ Cleanup
    \/ CallReturn
    \/ Shutdown

SpecLife == InitResample /\ [][NextLife]_vars

(* ------------------------------- claims ------------------------------- *)
\* The output frames of the running call that were written at least once.
FramesFilled == {k \in 1 .. Len(audio_out) : audio_out[k] >= 1}

\* C1: every Process call of the resampling engine fills exactly
\* frames_count output frames: once the first converter pass and the
\* underrun top-up (if any) are over, the frames produced are the frames
\* requested, whatever the converter reported.
C1_ProcessFillsBlock ==
    (build = "my_plugin" /\ call = "process"
                         /\ apc \in {"cleanup", "returned"})
        => Cardinality(FramesFilled) = num_frames

\* The values of the parameter-value events for parameter i in evs, in order.
RECURSIVE EchoValues(_, _)
EchoValues(evs, i) ==
    IF evs = << >> THEN << >>
    ELSE (IF evs[1].type = "PARAM_VALUE" /\ evs[1].param_id = i
          THEN << evs[1].value >> ELSE << >>) \o EchoValues(Tail(evs), i)

\* The entries of lg made by operation op, in order.
Entries(lg, op) == SelectSeq(lg, LAMBDA x : x.op = op)

\* The step in which a Process call's SyncMainParamsToAudio runs.
ProcessSyncStep == call = "process" /\ apc = "sync_cs" /\ apc' # "sync_cs"

\* C2: a parameter whose main_params_changed flag is set when Process takes
\* the lock has its value copied to audio_params in that call before any
\* frame is rendered, its flag cleared, and exactly one parameter-value
\* output event with the new value pushed; a parameter whose flag is clear
\* gets no output event.  No later step of the call pushes another one.
C2_ChangedParamPropagated ==
    [][/\ ProcessSyncStep =>
            /\ Entries(log', "render") = << >>
            /\ FramesFilled = {}
            /\ \A i \in ParamIds :
                  IF main_params_changed[i]
                  THEN /\ audio_params'[i] = main_params[i]
                       /\ ~main_params_changed'[i]
                       /\ EchoValues(out_events', i) = << main_params[i] >>
                  ELSE /\ audio_params'[i] = audio_params[i]
                       /\ EchoValues(out_events', i) = << >>
       /\ (call = "process" /\ apc \notin {"sync_cs", "returned"}) =>
            \A i \in ParamIds :
                EchoValues(out_events', i) = EchoValues(out_events, i)
      ]_vars

\* A Process call that found a changed value different from the render-side
\* one, echoed it, and went on to render its block.
C2_Witness ==
    /\ call = "process" /\ apc = "returned"
    /\ num_frames > 0 /\ Cardinality(FramesFilled) = num_frames
    /\ \E i \in ParamIds :
          /\ Len(EchoValues(out_events, i)) = 1
          /\ EchoValues(out_events, i)[1] # DefaultValue

\* C3: SyncMainParamsToAudio runs exactly once per Process call, and before
\* the call applies its first event or renders its first frame, the frames
\* of the underrun top-up included: what the call has done so far starts
\* with the sync and holds no second one.
C3_SyncOnceBeforeAll ==
    call = "process" =>
        IF apc = "sync_cs" THEN log = << >> /\ FramesFilled = {}
        ELSE /\ log # << >>
             /\ log[1].op = "sync"
             /\ Len(Entries(log, "sync")) = 1

\* A Process call that applied an event, rendered, ran the top-up pass and
\* returned.
C3_Witness ==
    /\ build = "my_plugin" /\ call = "process" /\ apc = "returned"
    /\ Entries(log, "event") # << >>
    /\ Entries(log, "render") # << >>
    /\ Entries(log, "topup") # << >>

\* The step in which the SyncMainParamsToAudio of a Process or Flush runs.
SyncStep == apc = "sync_cs" /\ apc' # "sync_cs"

\* C4: no lost updates.  A value a successful LoadState stored is what the
\* next Process or Flush copies into audio_params and echoes to the host,
\* unless a parameter-set event for that parameter was applied after the
\* LoadState (loaded[i] is the stored value while neither has happened).
C4_NoLostUpdate ==
    [][SyncStep =>
          \A i \in ParamIds :
              loaded[i] # NoValue =>
                  /\ audio_params'[i] = loaded[i]
                  /\ EchoValues(out_events', i) = << loaded[i] >>
      ]_vars

\* C5: persistence prefers a pending control-side change.  When
\* main_params_changed[i] is set as SaveState starts, the value SaveState
\* writes for parameter i is that pending value (save_pending[i]), also
\* when audio_params_changed[i] is set.
C5_SavePrefersPending ==
    [][(mpc = "save_write" /\ mpc' = "returned" /\ ret'.ok) =>
          \A i \in ParamIds :
              save_pending[i] # NoValue => stream'.data[i] = save_pending[i]
      ]_vars

\* C6: GetParamValue(i), i < NumParams, returns main_params[i] when
\* main_params_changed[i] is set and audio_params[i] otherwise, reads them
\* while the control context owns sync_params, and leaves the four
\* parameter arrays as they are.
C6_GetParamValue ==
    [][(mpc = "get_cs" /\ mpc' = "returned") =>
          /\ m_id \in ParamIds
          /\ sync_params = "main"
          /\ ret'.op = "GetParamValue" /\ ret'.ok
          /\ main_params_changed[m_id] => ret'.value = main_params[m_id]
          /\ ~main_params_changed[m_id] => ret'.value = audio_params[m_id]
          /\ UNCHANGED paramVars
      ]_vars

\* GetParamValue has returned a pending control-side value that differs
\* from the render-side one.
C6_Witness ==
    /\ mpc = "returned" /\ ret.op = "GetParamValue" /\ ret.ok
    /\ main_params_changed[m_id]
    /\ main_params[m_id] # audio_params[m_id]
    /\ ret.value = main_params[m_id]

\* C7: the end-of-Process cleanup removes every voice with held = false
\* and pushes exactly one NOTE_END with its key, note_id and channel for
\* each, in registry order, adjacent not-held voices included: the registry
\* left is the held voices, the events pushed are the not-held ones'.
C7_CleanupRemovesAll ==
    [][(apc = "cleanup" /\ apc' = "returned") =>
          LET gone == SelectSeq(voices, LAMBDA v : ~v.held)
          IN  /\ voices' = SelectSeq(voices, LAMBDA v : v.held)
              /\ out_events' = out_events
                     \o [k \in 1 .. Len(gone) |-> NoteEnd(gone[k])]
      ]_vars

\* The choke events the host can send.
ChokeEvents == {e \in NoteEventsAt({0}) : e.type = "NOTE_CHOKE"}

\* C8: right after a choke event is applied no voice matching it is left,
\* the voices that do not match are all kept in their order, and no
\* NOTE_END is pushed for a voice a choke removed, in that call or later.
\* The first part is stated of what the note handler makes of the reachable
\* registry for every choke event.
C8_ChokeRemovesAll ==
    /\ \A e \in ChokeEvents :
          NoteLoop(voices, e, 1)
              = SelectSeq(voices, LAMBDA v : ~Matches(e, v))
    /\ \A k \in 1 .. Len(out_events) :
          out_events[k].type = "NOTE_END" => out_events[k].uid \notin choked

\* Chokes have removed two voices, and a Process call has returned with a
\* NOTE_END for a voice that was released instead.
C8_Witness ==
    /\ Cardinality(choked) >= 2
    /\ call = "process" /\ apc = "returned"
    /\ \E k \in 1 .. Len(out_events) : out_events[k].type = "NOTE_END"

\* C9: after a block with a release event that matches two voices with
\* identical (key, note_id, channel), the registry does not hold those two
\* voices both with held = true.
C9_NoHeldTwins ==
    \A pair \in released_twins :
        ~(\A u \in pair :
              \E k \in 1 .. Len(voices) : voices[k].uid = u /\ voices[k].held)

\* A block in which a release matched two identical voices has returned.
C9_Witness ==
    /\ released_twins # {}
    /\ call = "process" /\ apc = "returned"

\* The frame up to which lg has rendered before its entry k.
RECURSIVE RenderedBefore(_, _)
RenderedBefore(lg, k) ==
    IF k <= 1 THEN 0
    ELSE IF lg[k - 1].op = "render" THEN lg[k - 1].b
         ELSE RenderedBefore(lg, k - 1)

\* C10: for a block of N frames and time-ordered events with timestamps in
\* [0, N), Process renders contiguous sub-spans with strictly increasing
\* boundaries that cover [0, N), every frame once; applies every event
\* once, in sequence order, when exactly the frames before its timestamp
\* are rendered (so events sharing a timestamp are applied with no
\* rendering between them).
C10_EventScheduling ==
    (build = "plugin" /\ call = "process") =>
        LET spans == Entries(log, "render")
            applied == Entries(log, "event")
        IN  /\ \A k \in 1 .. Len(spans) :
                  /\ spans[k].a = (IF k = 1 THEN 0 ELSE spans[k - 1].b)
                  /\ spans[k].a < spans[k].b
                  /\ spans[k].b <= num_frames
            /\ \A k \in 1 .. Len(audio_out) :
                  audio_out[k] = (IF k - 1 < RenderedBefore(log, Len(log) + 1)
                                  THEN 1 ELSE 0)
            /\ \A k \in 1 .. Len(applied) : applied[k].a = k - 1
            /\ \A k \in 1 .. Len(log) :
                  log[k].op = "event" => log[k].b = RenderedBefore(log, k)
            /\ apc \in {"cleanup", "returned"} =>
                  /\ Len(applied) = num_events
                  /\ RenderedBefore(log, Len(log) + 1) = num_frames

\* A block has returned in which two events shared a timestamp inside the
\* block and a span was rendered before and after them.
C10_Witness ==
    /\ build = "plugin" /\ call = "process" /\ apc = "returned"
    /\ Len(Entries(log, "render")) = 2
    /\ Len(Entries(log, "event")) = 2
    /\ Entries(log, "event")[1].b = Entries(log, "event")[2].b
    /\ Entries(log, "event")[1].b > 0

\* The scheduling loop of the running Process call is over.
LoopDone == apc \in {"resample", "underrun", "leftover", "cleanup", "returned"}

\* C11 as stated: for a block without input events the event pass of
\* Process makes exactly one RenderAudio call, over the full block.
C11_OneSpanAlways ==
    (call = "process" /\ num_events = 0 /\ LoopDone) =>
        Entries(log, "render") = << LogEntry("render", 0, num_frames) >>

\* C11, amended: for a block of N >= 1 frames without input events the
\* event pass of Process makes exactly one RenderAudio call, over [0, N);
\* for the empty block (N = 0) it makes none.
C11_OneSpanNonEmptyBlock ==
    (call = "process" /\ num_events = 0) =>
        /\ Entries(log, "render") \in
               {<< >>, << LogEntry("render", 0, num_frames) >>}
        /\ LoopDone => (Entries(log, "render") = << >> <=> num_frames = 0)

\* A block of the largest length without events has returned with its one
\* span.
C11_Witness ==
    /\ call = "process" /\ apc = "returned"
    /\ num_events = 0 /\ num_frames = MaxFrames
    /\ Entries(log, "render") = << LogEntry("render", 0, MaxFrames) >>

\* The render sub-spans [0, t1), [t1, t2), [t2, n) as log entries.
ThreeSpans(t1, t2, n) ==
    << LogEntry("render", 0, t1), LogEntry("render", t1, t2),
       LogEntry("render", t2, n) >>

\* C12 as stated: a block of N frames with exactly two events at distinct
\* timestamps t1 < t2 < N is rendered in exactly the three sub-spans
\* [0, t1), [t1, t2) and [t2, N).
C12_ThreeSpansAlways ==
    (build = "plugin" /\ call = "process" /\ num_events = 2 /\ LoopDone) =>
        LET applied == Entries(log, "event")
        IN  /\ Len(applied) = 2
            /\ applied[1].b < applied[2].b =>
                  Entries(log, "render")
                      = ThreeSpans(applied[1].b, applied[2].b, num_frames)

\* C12, amended: with 0 < t1 < t2 < N the block is rendered in exactly the
\* three sub-spans [0, t1), [t1, t2) and [t2, N); with 0 = t1 < t2 < N the
\* first event is applied before anything is rendered and the block is
\* rendered in exactly the two sub-spans [0, t2) and [t2, N).
C12_ThreeSpansAfterFrameZero ==
    (build = "plugin" /\ call = "process" /\ num_events = 2 /\ LoopDone) =>
        LET applied == Entries(log, "event")
        IN  /\ Len(applied) = 2
            /\ applied[1].b < applied[2].b =>
                  Entries(log, "render")
                      = IF applied[1].b = 0
                        THEN << LogEntry("render", 0, applied[2].b),
                                LogEntry("render", applied[2].b, num_frames) >>
                        ELSE ThreeSpans(applied[1].b, applied[2].b,
                                        num_frames)

\* A block with two events at distinct timestamps after frame 0 has
\* returned with three sub-spans.
C12_Witness ==
    /\ build = "plugin" /\ call = "process" /\ apc = "returned"
    /\ num_events = 2
    /\ Len(Entries(log, "event")) = 2
    /\ 0 < Entries(log, "event")[1].b
    /\ Entries(log, "event")[1].b < Entries(log, "event")[2].b
    /\ Len(Entries(log, "render")) = 3

\* The step in which the body of LoadState runs and returns.
LoadStateStep == mpc = "load_cs" /\ mpc' = "returned"

\* C13: a LoadState whose stream delivers a byte count other than
\* sizeof(float) * NumParams returns failure and leaves every
\* main_params_changed flag as it was.
C13_FailedLoadMarksNothing ==
    [][(LoadStateStep /\ ~ret'.ok) =>
           main_params_changed' = main_params_changed
      ]_vars

\* C14: a successful LoadState (exactly sizeof(float) * NumParams bytes
\* read) stores the loaded values in main_params, sets main_params_changed
\* for every parameter, leaves audio_params and audio_params_changed alone
\* and returns true (loaded' is the data the stream held).
C14_SuccessfulLoad ==
    [][(LoadStateStep /\ ret'.ok) =>
           /\ ret'.op = "LoadState"
           /\ main_params' = loaded'
           /\ \A i \in ParamIds : main_params_changed'[i]
           /\ UNCHANGED << audio_params, audio_params_changed >>
      ]_vars

\* A successful LoadState has returned with a value that differs from the
\* render-side one while a render-side change was pending.
C14_Witness ==
    /\ mpc = "returned" /\ ret.op = "LoadState" /\ ret.ok
    /\ \E i \in ParamIds :
          /\ main_params[i] = loaded[i]
          /\ main_params[i] # audio_params[i]
          /\ main_params[i] # DefaultValue
          /\ audio_params_changed[i]

\* The accessors that answer without taking the lock.
Accessors == {"GetParamInfo", "GetParamValue", "ParamValueToText"}

\* C15: for a parameter index >= NumParams, GetParamInfo, GetParamValue
\* and ParamValueToText report not-found, produce no value and change no
\* plugin state (they do not even take the lock).
C15_OutOfRangeNotFound ==
    [][(mpc = "idle" /\ mpc' = "returned" /\ m_id' >= NumParams) =>
           /\ ret'.op \in Accessors
           /\ ~ret'.ok
           /\ ret'.value = NoValue
           /\ UNCHANGED << paramVars, sync_params, voices, render_buf >>
      ]_vars

\* GetParamInfo has answered not-found for the index NumParams while a
\* loaded value was pending.
C15_Witness ==
    /\ mpc = "returned" /\ m_id = NumParams
    /\ ret = Returned("GetParamInfo", FALSE, NoValue)
    /\ \E i \in ParamIds : main_params_changed[i]

\* The converter passed the running call's block straight through: one
\* pass that consumed and produced exactly the frames requested.
PassedThrough ==
    /\ Entries(log, "topup") = << >>
    /\ Entries(log, "resample")
           = << LogEntry("resample", num_frames, num_frames) >>

\* C16: when the output rate equals the internal rate, every Process call
\* after Activate delivers the frames requested and leaves render_buf
\* empty.  Stated for the calls whose conversion was a pass-through, the
\* case most favourable to the claim.
C16_EqualRatesNoCarry ==
    (build = "my_plugin" /\ call = "process" /\ resample_ratio = << 1, 1 >>
       /\ apc \in {"cleanup", "returned"} /\ PassedThrough)
        => /\ Cardinality(FramesFilled) = num_frames
           /\ render_buf = << >>

\* The frames the last converter pass of the running call was offered.
LastPassInput ==
    IF Entries(log, "topup") = << >> THEN input_len
    ELSE Entries(log, "topup")[1].a

\* C17 (its conservation half, call by call): no rendered frame is dropped
\* or duplicated, so once the resample step is over render_buf holds
\* exactly the frames the last converter pass was offered and did not
\* consume.
C17_NoFrameDropped ==
    (build = "my_plugin" /\ call = "process"
                         /\ apc \in {"cleanup", "returned"})
        => Len(render_buf) = LastPassInput - in_len

\* C18: save/load round trip.  Values read back by a successful LoadState
\* (whatever a SaveState wrote: any values) and still in main_params when
\* the next Process call starts are copied to audio_params and echoed by
\* that call; if the call carries no parameter-set events they are what
\* audio_params holds and what GetParamValue reports when it returns.
C18_RoundTrip ==
    /\ [][ProcessSyncStep =>
             \A i \in ParamIds :
                 (loaded[i] # NoValue /\ main_params[i] = loaded[i]) =>
                     /\ audio_params'[i] = loaded[i]
                     /\ EchoValues(out_events', i) = << loaded[i] >>
         ]_vars
    /\ [](\A i \in ParamIds :
            (call = "process" /\ apc = "returned" /\ num_events = 0
               /\ EchoValues(out_events, i) # << >>) =>
                /\ audio_params[i] = EchoValues(out_events, i)[1]
                /\ ~main_params_changed[i] =>
                       CurrentValue(i) = EchoValues(out_events, i)[1])

\* A Process call without events has returned after echoing a loaded
\* value, and GetParamValue has reported that value.
C18_Witness ==
    /\ call = "process" /\ apc = "returned" /\ num_events = 0
    /\ mpc = "returned" /\ ret.op = "GetParamValue" /\ ret.ok
    /\ EchoValues(out_events, m_id) # << >>
    /\ ret.value = EchoValues(out_events, m_id)[1]
    /\ ret.value # DefaultValue
    /\ audio_params[m_id] = ret.value

\* The step of Flush in which ProcessEvent got an inert event.
InertEventStep ==
    /\ call = "flush" /\ apc = "flush"
    /\ event_index' = event_index + 1
    /\ log'[Len(log')].op = "inert"

\* C19: ProcessEvent on a recognized-but-inert event (note expression,
\* transport, MIDI, MIDI sysex, MIDI2) or an event outside the core event
\* space leaves the voice registry, the four parameter arrays and the
\* render buffer unchanged; the caller goes on to the next event.
C19_InertEventsIgnored ==
    [][InertEventStep =>
           UNCHANGED << voices, paramVars, render_buf, out_events, apc >>
      ]_vars

\* An inert event has been applied with a held voice in the registry,
\* frames in render_buf and a parameter-set event's value pending.
C19_Witness ==
    /\ call = "flush" /\ log # << >> /\ log[Len(log)].op = "inert"
    /\ \E k \in 1 .. Len(voices) : voices[k].held
    /\ render_buf # << >>
    /\ \E i \in ParamIds :
          audio_params_changed[i] /\ audio_params[i] # DefaultValue

\* C20: Process terminates for every block of N >= 0 frames and every
\* time-ordered event list with timestamps in [0, N): a call that was
\* entered returns; every pass of the scheduling for loop ends with the
\* block position strictly further, and every pass of the while loop that
\* does not leave it moves the event cursor on; the cleanup loop's body
\* runs at most as many times as there are voices when it starts.
C20_ProcessTerminates ==
    /\ (call = "process") ~> (apc = "returned")
    /\ [][/\ (apc = "render" /\ apc' # "render") => curr_frame' > curr_frame
          /\ (apc = "while" /\ apc' = "while")
                => event_index' > event_index \/ curr_frame' > curr_frame
         ]_vars
    /\ [](apc = "cleanup" => CleanupVisits(voices, 1) <= Len(voices))

\* A full block with two events, the second one lying ahead when it was
\* first read, has returned, and the cleanup loop has removed a voice and
\* left another.
C20_Witness ==
    /\ call = "process" /\ apc = "returned"
    /\ num_frames = MaxFrames /\ num_events = MaxEvents
    /\ Len(Entries(log, "render")) >= 2
    /\ Len(Entries(log, "event")) = num_events
    /\ \E k \in 1 .. Len(out_events) : out_events[k].type = "NOTE_END"
    /\ voices # << >>

\* C21: the render context never owns sync_params while it pushes an event
\* to the host's output sink (a parameter echo or a NOTE_END) or while
\* RenderAudio is about to run.
C21_NoLockAcrossHostCalls ==
    /\ \A k \in 1 .. Len(out_events) : ~out_events[k].locked
    /\ apc = "render" => sync_params # "audio"

\* The render context / the control context is inside a critical section
\* on the parameter arrays.
AudioInCS == apc \in {"sync_cs", "param_cs", "flush_param_cs"}
MainInCS == mpc \in {"load_cs", "save_cs", "get_cs"}

\* C22: data-race freedom on the parameter state: a context that is in a
\* section reading or writing the shared arrays owns sync_params, so the
\* two contexts are never both in such a section; and every step that
\* changes one of the four arrays is taken by the owner of the lock, from
\* inside its section.
C22_DataRaceFree ==
    /\ [](AudioInCS => sync_params = "audio")
    /\ [](MainInCS => sync_params = "main")
    /\ [](~(AudioInCS /\ MainInCS))
    /\ [][paramVars' # paramVars =>
             \/ sync_params = "audio" /\ AudioInCS /\ mpc' = mpc
             \/ sync_params = "main" /\ MainInCS /\ apc' = apc
         ]_vars

\* The render context is in SyncMainParamsToAudio with a value to take
\* over, right after a LoadState on the control side went through its
\* section, and the control side has not started its next operation.
C22_Witness ==
    /\ apc = "sync_cs" /\ sync_params = "audio"
    /\ mpc = "returned" /\ ret.op = "LoadState"
    /\ \E i \in ParamIds : main_params_changed[i]

\* The frames the underrun top-up of the running call rendered / the
\* converter consumed of them (0 when there was no top-up).
TopUpRendered ==
    IF Entries(log, "topup") = << >> THEN 0 ELSE Entries(log, "topup")[1].a
TopUpConsumed == IF Entries(log, "topup") = << >> THEN 0 ELSE in_len

\* The length render_buf must have when the resample step of the running
\* call is over: what the first pass was offered (the carry-over plus the
\* frames the scheduling loop rendered) plus the top-up, minus what the
\* two passes consumed.
UnconsumedFrames ==
    input_len + TopUpRendered
        - Entries(log, "resample")[1].a - TopUpConsumed

\* C23: render-buffer conservation.  From Activate onward render_buf holds
\* only samples that RenderAudio appended, and after the resample step of
\* every Process call its length is the number of frames rendered so far
\* minus the number the converter consumed so far (call by call: the
\* length before the call, plus the frames the call rendered, minus the
\* frames its converter passes consumed).
C23_BufferConservation ==
    /\ \A k \in 1 .. Len(render_buf) : render_buf[k] = Rendered
    /\ (build = "my_plugin" /\ call = "process"
                            /\ apc \in {"cleanup", "returned"})
           => Len(render_buf) = UnconsumedFrames

\* The step that ends the resample step: the leftover test on what the
\* final converter pass reported.
LeftoverStep == apc = "leftover" /\ apc' = "cleanup"

\* C24: leftover retention.  When the final converter pass (the first
\* pass, or the top-up pass over freshly rendered frames) consumed k of the
\* m frames it was offered and k < m, the last m - k frames stay in
\* render_buf in their order.
C24_LeftoverRetained ==
    [][(LeftoverStep /\ in_len < Len(render_buf)) =>
           render_buf' = SubSeq(render_buf, in_len + 1, Len(render_buf))
      ]_vars

\* The step of the underrun branch: the first converter pass left output
\* frames unfilled.
UnderrunStep == apc = "underrun" /\ apc' = "leftover"

\* c = ceil(n * r) for the ratio r = r[1] / r[2].
IsCeilOf(c, n, r) == c * r[2] >= n * r[1] /\ (c - 1) * r[2] < n * r[1]

\* C25: on underrun, the first pass having produced p = out_len of the N
\* frames requested, the top-up renders exactly ceil((N - p) * ratio)
\* frames into the emptied buffer, after every event of the block has been
\* applied, and the converter is offered those frames and writes to the
\* output positions p .. N - 1 only.
C25_UnderrunTopUp ==
    [][UnderrunStep =>
           /\ out_len < num_frames
           /\ event_index = num_events
           /\ IsCeilOf(Len(render_buf'), num_frames - out_len, resample_ratio)
           /\ \A k \in 1 .. Len(render_buf') : render_buf'[k] = Rendered
           /\ in_len' <= Len(render_buf')
           /\ out_len' <= num_frames - out_len
           /\ \A k \in 1 .. num_frames :
                 audio_out'[k] # audio_out[k] =>
                     (out_len < k /\ k <= out_len + out_len')
      ]_vars

\* A top-up at the ratio 3/2 for a block with events is over: it rendered
\* more frames than there were output frames to fill, and the converter
\* filled them.
C25_Witness ==
    /\ call = "process" /\ apc = "leftover"
    /\ resample_ratio = << 3, 2 >>
    /\ num_events = MaxEvents /\ event_index = num_events
    /\ Entries(log, "topup") # << >>
    /\ Entries(log, "topup")[1].a > Entries(log, "topup")[1].b
    /\ Entries(log, "topup")[1].b > 0
    /\ Cardinality(FramesFilled) = num_frames

\* Event e addresses voice v: each of its key, note id and channel is -1
\* or the voice's.
Addresses(e, v) ==
    \A f \in {"key", "note_id", "channel"} : e[f] = -1 \/ e[f] = v[f]

\* The step in which ProcessEvent handles the event of the given type that
\* Flush has read.
HandlesEvent(type) ==
    /\ call = "flush" /\ apc = "flush"
    /\ peeked # << >> /\ peeked[1].type = type
    /\ peeked' = << >>

\* C28: a voice-release event clears held on exactly the voices it
\* addresses and changes nothing else: the registry keeps its length and
\* order, the voices addressed differ from before in held only, the others
\* not at all; an event with key, note id and channel all -1 leaves no
\* voice held.
C28_ReleaseExactlyMatching ==
    [][HandlesEvent("NOTE_OFF") =>
           /\ Len(voices') = Len(voices)
           /\ \A k \in 1 .. Len(voices) :
                 voices'[k] = IF Addresses(peeked[1], voices[k])
                              THEN [voices[k] EXCEPT !.held = FALSE]
                              ELSE voices[k]
           /\ (peeked[1].key = -1 /\ peeked[1].note_id = -1
                                  /\ peeked[1].channel = -1)
                 => \A k \in 1 .. Len(voices') : ~voices'[k].held
      ]_vars

\* Two voices at different addresses were started and a release event
\* that addresses only the second one has been handled.
C28_Witness ==
    /\ call = "flush" /\ peeked = << >>
    /\ log # << >> /\ log[Len(log)].op = "NOTE_OFF"
    /\ Len(voices) = 2
    /\ voices[1].held /\ ~voices[2].held

\* The indices of the voices that event e addresses.
Addressed(e, vs) == {k \in 1 .. Len(vs) : Addresses(e, vs[k])}

\* C29: a parameter-modulation event stores its amount in
\* param_offsets[param_id] of the first voice in registry order that it
\* addresses, held or not, and changes no other voice; when it addresses
\* no voice the registry is unchanged; the four parameter arrays are not
\* changed.
C29_ModFirstMatchOnly ==
    [][HandlesEvent("PARAM_MOD") =>
           LET e == peeked[1]
               M == Addressed(e, voices)
           IN  /\ M = {} => voices' = voices
               /\ M # {} =>
                    LET first == CHOOSE k \in M : \A j \in M : k <= j
                    IN  voices' = [voices EXCEPT
                            ![first].param_offsets[e.param_id] = e.value]
               /\ UNCHANGED paramVars
      ]_vars

\* A modulation event has just been handled with two voices at the same
\* address in the registry: the first one, released, carries the amount,
\* the second one, held, does not.
C29_Witness ==
    /\ call = "flush" /\ peeked = << >>
    /\ log # << >> /\ log[Len(log)].op = "PARAM_MOD"
    /\ Len(voices) = 2
    /\ voices[1].key = voices[2].key /\ voices[1].note_id = voices[2].note_id
    /\ ~voices[1].held /\ voices[2].held
    /\ voices[1].param_offsets[ParamVolume] = MaxValue
    /\ voices[2].param_offsets[ParamVolume] = 0

\* Voices v and w have the same key, note id and channel.
SameAddress(v, w) ==
    v.key = w.key /\ v.note_id = w.note_id /\ v.channel = w.channel

\* C30: a voice-start event first clears held on every voice it addresses
\* (the other voices stay as they are), then appends one voice at the end
\* of the registry with the event's key, note id and channel, held, with
\* phase 0 and every parameter offset 0; and in every reachable state no
\* two held voices have the same key, note id and channel.
C30_StartReleasesThenAppends ==
    /\ [][HandlesEvent("NOTE_ON") =>
              /\ Len(voices') = Len(voices) + 1
              /\ \A k \in 1 .. Len(voices) :
                    voices'[k] = IF Addresses(peeked[1], voices[k])
                                 THEN [voices[k] EXCEPT !.held = FALSE]
                                 ELSE voices[k]
              /\ LET v == voices'[Len(voices')]
                 IN  /\ v.held
                     /\ v.phase = 0
                     /\ \A p \in ParamIds : v.param_offsets[p] = 0
                     /\ SameAddress(v, peeked[1])
         ]_vars
    /\ [](\A i, j \in 1 .. Len(voices) :
             (i # j /\ voices[i].held /\ voices[j].held)
                 => ~SameAddress(voices[i], voices[j]))

\* A voice-start has just been handled with two voices in the registry:
\* the first, at the new voice's address and carrying a modulation amount,
\* was released; the second, at the other address, is still held.
C30_Witness ==
    /\ call = "flush" /\ peeked = << >>
    /\ log # << >> /\ log[Len(log)].op = "NOTE_ON"
    /\ Len(voices) = 3
    /\ SameAddress(voices[1], voices[3]) /\ ~SameAddress(voices[2], voices[3])
    /\ ~voices[1].held /\ voices[2].held /\ voices[3].held
    /\ voices[1].param_offsets[ParamVolume] = MaxValue

\* The step in which NukedSc55::Activate runs (the log holds its argument).
Sc55ActivateStep ==
    /\ build = "nuked_sc55"
    /\ log' # << >> /\ log'[1].op = "activate"

\* C26: NukedSc55::Activate(sample_rate, ...) selects the resampling path
\* (do_resample, a converter for the output rate sample_rate,
\* resample_ratio = 32000 / sample_rate) exactly when sample_rate differs
\* from the render rate of 32000 Hz, and the pass-through path otherwise,
\* on the first call and on every later one.
C26_ResamplePathIffRatesDiffer ==
    [][Sc55ActivateStep =>
           LET sample_rate == log'[1].a
           IN  /\ do_resample' = (sample_rate # Sc55RenderSampleRateHz)
               /\ do_resample' =>
                    /\ resampler' = "live"
                    /\ output_sample_rate_hz' = << sample_rate, 1 >>
                    /\ resample_ratio'
                          = << Sc55RenderSampleRateHz, sample_rate >>
      ]_vars

\* One pass of the pass-through loop of NukedSc55::Process.
Sc55CopyStep == apc = "passthrough" /\ copy_index' = copy_index + 1

\* C27: on the pass-through path every output frame i of the block is
\* copied from index i of render_buf, which is below the buffer's size
\* when it is read, and the buffer is emptied only once all N frames have
\* been copied.
C27_PassThroughCopiesThenClears ==
    [][Sc55CopyStep =>
           /\ copy_index < Len(render_buf)
           /\ render_buf' # render_buf => copy_index' = num_frames
      ]_vars


\* A call of RenderAudio: the render step of a sub-span, or the top-up of
\* the underrun branch.
RenderAudioStep == apc \in {"render", "underrun"} /\ apc' # apc

\* The uids of the voices of vs that are not held.
NotHeld(vs) == {vs[k].uid : k \in {j \in 1 .. Len(vs) : ~vs[j].held}}

\* C31: RenderAudio sums only held voices.  A voice that is not held is
\* added to no frame and keeps its phase in every RenderAudio call (the
\* render of a sub-span and the top-up of an underrun), and as long as it
\* is in the registry it stays not held with the phase it had.
C31_OnlyHeldVoicesSound ==
    /\ [][RenderAudioStep =>
             /\ summed' \cap NotHeld(voices) = {}
             /\ Len(voices') = Len(voices)
             /\ \A k \in 1 .. Len(voices) :
                   ~voices[k].held => voices'[k] = voices[k]
         ]_vars
    /\ [][\A k \in 1 .. Len(voices) : \A j \in 1 .. Len(voices') :
             (~voices[k].held /\ voices'[j].uid = voices[k].uid)
                 => (~voices'[j].held /\ voices'[j].phase = voices[k].phase)
         ]_vars

\* The top-up has rendered at least one frame with a released voice that
\* never sounded and a held voice in the registry; the held one was summed.
C31_Witness ==
    /\ apc = "leftover"
    /\ log # << >>
    /\ log[Len(log)].op = "topup" /\ log[Len(log)].a > 0
    /\ \E k \in 1 .. Len(voices) : ~voices[k].held /\ voices[k].phase = 0
    /\ \E k \in 1 .. Len(voices) :
          voices[k].held /\ voices[k].phase = PhaseMoved
                         /\ voices[k].uid \in summed


\* ProcessEvent writes the value of a parameter-set event.
ParamSetStep ==
    /\ apc \in {"param_cs", "flush_param_cs"}
    /\ apc' \notin {"param_cs", "flush_param_cs"}

\* SyncAudioParamsToMain runs from the lock to its return.
SyncBackStep == mpc = "save_cs" /\ mpc' = "save_write"

\* C32: a parameter-set event for parameter i with value v sets
\* audio_params[i] = v and audio_params_changed[i].  SyncAudioParamsToMain
\* copies audio_params[i] into main_params[i] for exactly the flagged
\* parameters, clears every flag, leaves audio_params alone and returns
\* whether a flag was set.  Only a parameter-set event sets a flag, so a
\* second run without one in between finds no flag, changes nothing and
\* returns false.
C32_RenderToControlSync ==
    /\ [][ParamSetStep =>
             /\ audio_params'[peeked[1].param_id] = peeked[1].value
             /\ audio_params_changed'[peeked[1].param_id]
         ]_vars
    /\ [][SyncBackStep =>
             /\ \A i \in ParamIds :
                   /\ main_params'[i] = IF audio_params_changed[i]
                                        THEN audio_params[i]
                                        ELSE main_params[i]
                   /\ ~audio_params_changed'[i]
             /\ audio_params' = audio_params
             /\ ret'.ok = (\E i \in ParamIds : audio_params_changed[i])
             /\ (\A i \in ParamIds : ~audio_params_changed[i])
                   => UNCHANGED paramVars
         ]_vars
    /\ [][(\E i \in ParamIds :
              audio_params_changed'[i] /\ ~audio_params_changed[i])
             => ParamSetStep
         ]_vars

\* SyncAudioParamsToMain has just copied a value the host set, different
\* from the one the control side held, and reported a change.
C32_Witness ==
    /\ mpc = "save_write"
    /\ ret = Returned("SyncAudioParamsToMain", TRUE, NoValue)
    /\ main_params[ParamVolume] = audio_params[ParamVolume]
    /\ main_params[ParamVolume] # DefaultValue
    /\ ~audio_params_changed[ParamVolume]


\* C33: SyncMainParamsToAudio does not change what GetParamValue returns:
\* for every parameter the value is the same right after the call as right
\* before it.  The call clears every main_params_changed flag and only
\* LoadState sets one, so a second call without a LoadState in between
\* finds no flag, changes no parameter array and pushes no event.
C33_PropagationInvisible ==
    /\ [][SyncStep =>
             /\ \A i \in ParamIds :
                   /\ CurrentValue(i)' = CurrentValue(i)
                   /\ ~main_params_changed'[i]
             /\ (\A i \in ParamIds : ~main_params_changed[i])
                   => UNCHANGED << paramVars, out_events >>
         ]_vars
    /\ [][(\E i \in ParamIds :
              main_params_changed'[i] /\ ~main_params_changed[i])
             => LoadStateStep
         ]_vars

\* GetParamValue returned a loaded value that was not yet propagated, then
\* Flush propagated it: the value GetParamValue would return is the same.
C33_Witness ==
    /\ call = "flush" /\ apc = "flush"
    /\ log # << >> /\ log[Len(log)].op = "sync"
    /\ mpc = "returned" /\ ret.op = "GetParamValue" /\ ret.ok
    /\ ret.value # DefaultValue
    /\ EchoValues(out_events, m_id) = << ret.value >>
    /\ CurrentValue(m_id) = ret.value
    /\ ~main_params_changed[m_id]


\* A step of a running Flush call.
FlushStep == call = "flush" /\ call' = "flush"

\* The step in which Flush applies a choke event that addresses voice v.
ChokeApplied(v) ==
    /\ HandlesEvent("NOTE_CHOKE")
    /\ Addresses(peeked[1], v)

\* What a Flush call has done so far: the propagation first and once, then
\* the events by ascending index without a gap, whatever their timestamps;
\* nothing rendered or resampled, no output frame.
FlushInOrder ==
    (call = "flush" /\ apc # "sync_cs") =>
        /\ log # << >>
        /\ log[1].op = "sync"
        /\ \A k \in 2 .. Len(log) :
              /\ log[k].op \in NoteTypes \cup {"return"}
              /\ log[k].op \in NoteTypes => log[k].a = k - 2
              /\ log[k].op = "return" => k = Len(log) /\ k = num_events + 2
        /\ audio_out = << >>

\* A step of Flush leaves the render buffer and the phase of every voice
\* alone, adds no voice to a frame and pushes no voice-ended event.
FlushRendersNothing ==
    FlushStep =>
        /\ render_buf' = render_buf
        /\ summed' = summed
        /\ \A k \in 1 .. Len(out_events') : out_events'[k].type # "NOTE_END"
        /\ \A k \in 1 .. Len(voices) : \A j \in 1 .. Len(voices') :
              voices'[j].uid = voices[k].uid
                  => voices'[j].phase = voices[k].phase

\* C34 as stated: Flush propagates once, then applies every event once in
\* sequence order whatever its timestamp; it renders nothing, leaves the
\* render buffer and the phases alone, pushes no voice-ended event, and no
\* voice that is not held leaves the registry outside a Process call.
C34_FlushRemovesNoReleasedVoice ==
    /\ []FlushInOrder
    /\ [][FlushRendersNothing]_vars
    /\ [][call # "process" => NotHeld(voices) \subseteq UidsOf(voices')]_vars

\* C34, amended: as above, but a voice that is not held leaves the
\* registry outside a Process call exactly when Flush applies a choke
\* event that addresses it.
C34_FlushRemovesOnlyChoked ==
    /\ []FlushInOrder
    /\ [][FlushRendersNothing]_vars
    /\ [][call # "process" =>
             \A k \in 1 .. Len(voices) :
                ~voices[k].held =>
                    (voices[k].uid \in UidsOf(voices'))
                        = ~ChokeApplied(voices[k])
         ]_vars

\* Flush has applied a voice-start and then a release stamped past any
\* block; the registry holds a released voice that sounded in an earlier
\* block and one that never sounded, and the render buffer holds frames.
C34_Witness ==
    /\ call = "flush" /\ apc = "flush"
    /\ Len(log) = 3
    /\ log[2].op = "NOTE_ON" /\ log[2].a = 0
    /\ log[3].op = "NOTE_OFF" /\ log[3].a = 1 /\ log[3].b = MaxFrames
    /\ render_buf # << >>
    /\ out_events = << >>
    /\ \E k \in 1 .. Len(voices) :
          ~voices[k].held /\ voices[k].phase = PhaseMoved
    /\ \E k \in 1 .. Len(voices) : ~voices[k].held /\ voices[k].phase = 0


\* The uids of the voice-ended events among evs.
EndedUids(evs) ==
    {evs[k].uid : k \in {j \in 1 .. Len(evs) : evs[j].type = "NOTE_END"}}

\* The voice-ended events pushed by this step.
NewlyPushed ==
    IF Len(out_events') > Len(out_events)
    THEN SubSeq(out_events', Len(out_events) + 1, Len(out_events'))
    ELSE << >>

\* C35: with Process called again and again, a voice that is no longer
\* held is eventually out of the registry.  A voice-ended event is pushed
\* only in the step that removes its voice, once, and a removed voice's
\* identity never comes back, so each voice gets at most one.  The
\* end-of-block cleanup leaves every held voice in place.
C35_ReleasedVoicesGoOnce ==
    /\ \A u \in 1 .. MaxVoiceStarts :
          (u \in NotHeld(voices)) ~> (u \notin UidsOf(voices))
    /\ [][/\ \A u \in EndedUids(NewlyPushed) :
                /\ u \in NotHeld(voices)
                /\ u \notin UidsOf(voices')
                /\ Cardinality({k \in 1 .. Len(NewlyPushed) :
                                   NewlyPushed[k].uid = u}) = 1
          /\ UidsOf(voices') \ UidsOf(voices) \subseteq {next_uid}
          /\ next_uid' >= next_uid
          /\ \A u \in UidsOf(voices) : u < next_uid
         ]_vars
    /\ [][apc = "cleanup" =>
             \A k \in 1 .. Len(voices) :
                voices[k].held =>
                   \E j \in 1 .. Len(voices') : voices'[j] = voices[k]
         ]_vars

\* A block has ended with one released voice removed and notified, another
\* released voice still in the registry, and a held voice kept.
C35_Witness ==
    /\ call = "process" /\ apc = "returned"
    /\ EndedUids(out_events) # {}
    /\ NotHeld(voices) # {}
    /\ \E k \in 1 .. Len(voices) : voices[k].held


\* ProcessEvent runs on the parameter-set or modulation event Flush has
\* read, to its end or to the fault.
ParamEventStep ==
    /\ apc \in {"flush", "flush_param_cs"}
    /\ peeked # << >>
    /\ peeked[1].type \in {"PARAM_VALUE", "PARAM_MOD"}
    /\ apc = "flush" => peeked[1].type = "PARAM_MOD"
    /\ peeked' = << >> \/ apc' = "crashed"

\* C36: whatever param_id a parameter-set or modulation event carries, the
\* index ProcessEvent uses on audio_params, audio_params_changed or
\* param_offsets is below NumParams, and an event whose param_id is not
\* below NumParams changes no parameter array and no voice and ends
\* normally.
C36_ParamIndexInRange ==
    [][ParamEventStep =>
           /\ AccessesArray(peeked[1]) => IndexUsed(peeked[1]) < NumParams
           /\ peeked[1].param_id >= NumParams =>
                 /\ UNCHANGED << paramVars, voices >>
                 /\ apc' # "crashed"
      ]_vars


\* C37: in every run of Activate, Process and Shutdown calls on one plugin
\* at most one converter instance exists that was not destroyed, Shutdown
\* destroys the instance Activate created and leaves none behind, and a
\* Shutdown without a converter destroys nothing.
C37_ConverterLifecycle ==
    /\ [](converters <= 1)
    /\ [](apc = "destroyed" => converters = 0)
    /\ [][(apc' = "destroyed" /\ resampler = "null")
             => converters' = converters]_vars


\* C38: the resample step of MyPlugin::Process ends with a carry-over
\* buffer as long as the one resample() of resampler_test.cpp ends with,
\* started from the same buffer length, asked for the same number of
\* output frames and given the same answers of the converter, the answers
\* to an underrun top-up that consumes less than it was offered included.
C38_RefinesReferenceResample ==
    [][LeftoverStep =>
           Len(render_buf') =
               ReferenceCarry(input_len, num_frames,
                              << Entries(log, "resample")[1].a,
                                 Entries(log, "resample")[1].b >>,
                              << in_len, out_len >>, resample_ratio)
      ]_vars

=============================================================================
